---- MODULE Spec2Model ----
(***************************************************************************)
(* talos-gitops-ops as state machines, one specification per part:         *)
(*   Spec          the pre-tool command hook (validate-command): one hook  *)
(*                 process per event, sharing the session-state file       *)
(*                 /tmp/talos-gitops-ops-session.json across invocations   *)
(*   SpecDetect    findRepoRoot and detectClusterContext from a cold       *)
(*                 cache, on every repository layout of the bounds         *)
(*   SpecCache     the context cache of a long-lived process with          *)
(*                 overlapping callers; SpecCacheSeq the same used by one  *)
(*                 operation after the other                               *)
(*   SpecEdit      the pre-tool edit hook (validate-yaml)                  *)
(*   SpecRace      command-hook processes whose load and save of the       *)
(*                 session-state file interleave                           *)
(*   SpecLoop      a session of the command hook with its commands kept    *)
(*   SpecSync      the post-tool sync watcher; SpecSyncFair the same with  *)
(*                 the watcher's awaits settling                           *)
(*                                                                         *)
(* A command string is modelled as the sequence of its whitespace-         *)
(* delimited tokens (single blanks, no leading or trailing blank); every   *)
(* token is a whole word, so the regular expressions of the hook, which    *)
(* are anchored on word boundaries and \s+, become tests on adjacent       *)
(* tokens.  The empty string is the empty sequence.                         *)
(***************************************************************************)
EXTENDS Integers, Sequences, FiniteSets, TLC

VARIABLES
    stateFile,      \* content of SESSION_STATE_FILE on disk
    prevFile,       \* content of SESSION_STATE_FILE when the last hook run began
    hookInput,      \* the event the last hook run read from stdin
    cwd,            \* process.cwd() of the last hook run
    bootstrapMode,  \* TALOS_GITOPS_BOOTSTRAP === "true" of the last hook run
    bootstrapEnv,   \* process.env.TALOS_GITOPS_BOOTSTRAP of the last hook run
    stdout,         \* decisions the last hook run printed (console.log)
    stderr,         \* TRUE when the last hook run printed "Hook error:"
    exitCode,       \* exit codes of the last hook run: <<>> before any run
    saveResult,     \* "none" | "ok" | "failed": the run's saveSessionState call
    saved,          \* the state handed to saveSessionState by the last run
    tree,           \* the paths that exist on disk, as findRepoRoot stats them
    appDirs,        \* the entries of <repoRoot>/apps in readdir order
    clusters,       \* per cluster, the entries of clusters/<c>/patches
    startDir,       \* the directory a detection starts from
    foundRoot,      \* what findRepoRoot(startDir) returned
    detected,       \* what detectClusterContext(startDir) returned, cache cold
    now,            \* Date.now()
    cachedContext,  \* the module variable cachedContext
    cacheTime,      \* the module variable cacheTime
    calls,          \* per caller, its detectClusterContext call
    nextRef,        \* identity of the next ClusterContext object constructed
    prior,          \* the latest completed call, as the next call finds it
    editInput,      \* the event the last edit-hook run read from stdin
    editDir,        \* process.cwd() of the last edit-hook run
    editEnv,        \* the remote side and the values file on disk
    editRun,        \* what the last edit-hook run collected and printed
    editAgain,      \* what a second run on the same event and state leaves
    racers,         \* the command-hook processes running at the same time
    lastWrite,      \* the last successful write of the state file
    recorded,       \* the app names successfully saved so far, by list
    invocations,    \* command-hook processes started at the same time so far
    history,        \* the in-repo commands processed since the default state
    watch           \* the sync-watcher process: position, clock and reports

hookVars == <<stateFile, prevFile, hookInput, cwd, bootstrapMode, bootstrapEnv,
              stdout, stderr, exitCode, saveResult, saved>>

\* the repository on disk
repoVars == <<tree, appDirs, clusters>>

\* one detection from a cold cache
detectVars == <<startDir, foundRoot, detected>>

\* the context cache of a long-lived process
cacheVars == <<now, cachedContext, cacheTime, calls, nextRef, prior>>

\* the validate-yaml hook and what it reads
editVars == <<editInput, editDir, editEnv, editRun, editAgain>>

\* command-hook processes whose load and save interleave
raceVars == <<racers, lastWrite, recorded, invocations>>

\* the commands a session has seen, for the loop rule
loopVars == <<history>>

\* the post-tool sync watcher
syncVars == <<watch>>

vars == <<hookVars, repoVars, detectVars, cacheVars, editVars, raceVars,
          loopVars, syncVars>>

(***************************************************************************)
(* Bounds of the model.                                                    *)
(***************************************************************************)
\* most app names a run may leave recorded, validatedApps and diffedApps
\* taken together
MaxApps == 2
\* most entries of <repoRoot>/apps
MaxEntries == 2
\* most files of one patches directory
MaxPatches == 2
\* the clock runs for this many steps of TickMs
MaxTicks == 3
\* most ClusterContext objects constructed in one behaviour
MaxContexts == 3
\* most sources of an Application manifest
MaxSources == 2
\* most lines of an edited values file
MaxLines == 2
\* most command-hook processes started in a behaviour of overlapping runs
MaxInvocations == 3
\* most in-repo commands of a session whose commands are kept
MaxHistory == 4
\* most applications argocd app list reports
MaxSyncApps == 2

(***************************************************************************)
(* Program constants.                                                      *)
(***************************************************************************)
\* if (state.loopCount >= 2)
LoopThreshold == 2
\* process.exit(0)
ExitSuccess == 0
\* const CACHE_TTL = 30_000
CACHE_TTL == 30000
\* const SYNC_TIMEOUT_MS = 30_000
SYNC_TIMEOUT_MS == 30000
\* const POLL_INTERVAL_MS = 2_000
POLL_INTERVAL_MS == 2000
\* execAsync("argocd app list ...", { timeout: 5_000 })
ExecTimeoutMs == 5000

(***************************************************************************)
(* Session state values.  kind tells what JSON.parse of the file yields:   *)
(*   "absent"   no file                "garbage"  not parseable as JSON    *)
(*   "null"     the JSON value null    "empty"    the object {}            *)
(*   "partial"  {lastCommand, loopCount} only (the lists undefined)        *)
(*   "full"     an object of the SessionState shape                        *)
(* Fields a kind does not have are kept at their zero value.               *)
(***************************************************************************)
Obj(k, lc, n, va, da) ==
    [kind |-> k, lastCommand |-> lc, loopCount |-> n,
     validatedApps |-> va, diffedApps |-> da]

Blank(k) == Obj(k, <<>>, 0, <<>>, <<>>)

DefaultState == Obj("full", <<>>, 0, <<>>, <<>>)

HasScalars(state) == state.kind \in {"partial", "full"}

HasLists(state) == state.kind = "full"

\* try { JSON.parse(await Bun.file(...).text()) } catch { default }
loadSessionState(file) ==
    IF file.kind \in {"absent", "garbage"} THEN DefaultState ELSE file

\* JSON.stringify(state, null, 2): strings, integers and arrays of strings are
\* written as they are; an undefined field is left out, which kind records.
saveSessionState(state) == state

(***************************************************************************)
(* The regular expressions of the hook, on token sequences.                *)
(***************************************************************************)
\* /\bkubectl\s+/ : the word kubectl followed by white space, that is, by
\* a further token
KubectlPattern(command) ==
    \E i \in 1..(Len(command) - 1) : command[i] = "kubectl"

\* /\bhelm\s+(install|upgrade)\b/
HelmInstallPattern(command) ==
    \E i \in 1..(Len(command) - 1) :
        command[i] = "helm" /\ command[i + 1] \in {"install", "upgrade"}

\* /\bhelm\s+template\b/
HelmTemplatePattern(command) ==
    \E i \in 1..(Len(command) - 1) :
        command[i] = "helm" /\ command[i + 1] = "template"

\* /\bargocd\s+app\s+diff\b/
ArgoDiffPattern(command) ==
    \E i \in 1..(Len(command) - 2) :
        command[i] = "argocd" /\ command[i + 1] = "app" /\ command[i + 2] = "diff"

\* /\bargocd\s+app\s+sync\b/
ArgoSyncPattern(command) ==
    \E i \in 1..(Len(command) - 2) :
        command[i] = "argocd" /\ command[i + 1] = "app" /\ command[i + 2] = "sync"

\* /\bgit\s+push\b/
GitPushPattern(command) ==
    \E i \in 1..(Len(command) - 1) : command[i] = "git" /\ command[i + 1] = "push"

\* command.match(/<phrase>\s+(\S+)/): <<>> for null, else <<match[1]>>, the
\* token after the leftmost occurrence of the phrase that has one
MatchAfter(command, phrase) ==
    LET n == Len(phrase)
        hits == {i \in 1..(Len(command) - n) : SubSeq(command, i, i + n - 1) = phrase}
    IN  IF hits = {} THEN <<>>
        ELSE LET first == CHOOSE i \in hits : \A j \in hits : i <= j
             IN  <<command[first + n]>>

\* state.diffedApps.includes(appName)
Includes(list, name) == \E i \in 1..Len(list) : list[i] = name

(***************************************************************************)
(* What a run does, in order: console.log of a decision, a call of         *)
(* saveSessionState, process.exit, or a TypeError thrown by a property     *)
(* access on null / undefined.                                             *)
(***************************************************************************)
Effect(o, d, r, st, c) ==
    [op |-> o, decision |-> d, reason |-> r, state |-> st, code |-> c]

\* console.log(JSON.stringify(hookResponse.deny(reason) / .ask(reason)))
Log(d, r) == Effect("log", d, r, DefaultState, ExitSuccess)

\* await saveSessionState(state)
Save(st) == Effect("save", "", "", st, ExitSuccess)

\* process.exit(code)
Exit(c) == Effect("exit", "", "", DefaultState, c)

\* TypeError: reading or calling a property of null / undefined
Throw == Effect("throw", "", "", DefaultState, ExitSuccess)

(***************************************************************************)
(* Root discovery.  A path is the sequence of its components (<<>> is      *)
(* "/"); a disk is the set of the paths that exist.                        *)
(***************************************************************************)
Markers == <<"omniconfig.yaml", "apps", ".talos-gitops-ops">>

dirname(path) == IF path = <<>> THEN path ELSE SubSeq(path, 1, Len(path) - 1)

join(path, name) == Append(path, name)

NotFound == [found |-> FALSE, root |-> <<>>]

\* while (current !== "/") { for marker: stat(join(current, marker)) ... }
RECURSIVE findRepoRoot(_, _)
findRepoRoot(disk, current) ==
    IF current = <<>> THEN NotFound
    ELSE IF \E i \in 1..Len(Markers) : join(current, Markers[i]) \in disk
         THEN [found |-> TRUE, root |-> current]
         ELSE findRepoRoot(disk, dirname(current))

\* isGitOpsRepo testing the root against undefined (root !== undefined)
isGitOpsRepo_NullIsRoot(disk, path) == TRUE

\* const root = await findRepoRoot(path); return root !== null
isGitOpsRepo(disk, path) == findRepoRoot(disk, path).found

(***************************************************************************)
(* The repository context detector (cluster-context).                      *)
(*                                                                         *)
(* An entry of <repoRoot>/apps is [dir, kind, name]: dir is the entry's    *)
(* name, name the metadata.name of its manifest, and kind tells what the   *)
(* scan meets there:                                                       *)
(*   "app"         a directory whose application manifest parses           *)
(*   "file"        not a directory                                         *)
(*   "statFails"   stat(appPath) rejects (dangling link, EACCES)           *)
(*   "listFails"   a directory whose readdir rejects                       *)
(*   "noManifest"  a directory without a file named *application*         *)
(*   "malformed"   a manifest parseApplication answers with null           *)
(* An entry of a patches directory is [node, kind]: node is the file name  *)
(* up to its first "-", and kind is "node" (a .yaml file holding an IP),   *)
(* "noIp", "notYaml" (another suffix) or "unreadable" (readFile rejects).  *)
(***************************************************************************)
AppEntry(d, k, n) == [dir |-> d, kind |-> k, name |-> n]

PatchEntry(n, k) == [node |-> n, kind |-> k]

\* the AppDefinition parseApplication returns, reduced to its name
AppDefinition(n) == [name |-> n]

\* new Map()
EmptyMap == [k \in {} |-> AppDefinition("")]

\* Map.prototype.set
MapSet(map, key, value) ==
    [k \in DOMAIN map \cup {key} |-> IF k = key THEN value ELSE map[k]]

\* parseApplication: null unless the manifest is an Application with a helm
\* source; name = doc.metadata?.name || ""
parseApplication(entry) ==
    IF entry.kind = "app"
    THEN [null |-> FALSE, def |-> AppDefinition(entry.name)]
    ELSE [null |-> TRUE, def |-> AppDefinition("")]

\* try { for (const appName of appDirs) { stat; readdir; find; parse; set } }
\* catch {}: a rejected stat or readdir leaves the loop for good
RECURSIVE scanApps(_, _, _)
scanApps(entries, i, apps) ==
    IF i > Len(entries) THEN apps
    ELSE LET entry == entries[i]
             appDef == parseApplication(entry)
         IN  IF entry.kind = "statFails" THEN apps
             ELSE IF entry.kind = "file"
             THEN scanApps(entries, i + 1, apps)
             ELSE IF entry.kind = "listFails" THEN apps
             ELSE IF entry.kind = "noManifest"
             THEN scanApps(entries, i + 1, apps)
             ELSE IF appDef.null
             THEN scanApps(entries, i + 1, apps)
             ELSE scanApps(entries, i + 1, MapSet(apps, entry.dir, appDef.def))

\* the loop over one patches directory, inside the inner try of scanNodes: a
\* rejected readFile leaves the loop with the nodes pushed so far
RECURSIVE scanPatches(_, _, _)
scanPatches(patchFiles, i, nodes) ==
    IF i > Len(patchFiles) THEN nodes
    ELSE LET patch == patchFiles[i]
         IN  IF patch.kind = "notYaml"
             THEN scanPatches(patchFiles, i + 1, nodes)
             ELSE IF patch.kind = "unreadable" THEN nodes
             ELSE IF patch.kind = "node"
             THEN scanPatches(patchFiles, i + 1, Append(nodes, patch.node))
             ELSE scanPatches(patchFiles, i + 1, nodes)

\* scanNodes: for (const cluster of clusters) { try { ... } catch {} }
RECURSIVE scanNodes(_, _, _)
scanNodes(clusterDirs, c, nodes) ==
    IF c > Len(clusterDirs) THEN nodes
    ELSE scanNodes(clusterDirs, c + 1, scanPatches(clusterDirs[c], 1, nodes))

\* a ClusterContext object: ref tells objects apart (reference identity) and
\* builtAt is the instant it was constructed; null is the value null
Context(ref, root, apps, nodes, builtAt) ==
    [null |-> FALSE, ref |-> ref, repoRoot |-> root, apps |-> apps,
     nodes |-> nodes, builtAt |-> builtAt]

NullContext ==
    [null |-> TRUE, ref |-> 0, repoRoot |-> <<>>, apps |-> EmptyMap,
     nodes |-> <<>>, builtAt |-> 0]

\* detectClusterContext with nothing cached: null without a repo root, else
\* the context read from disk
detectClusterContext(disk, dir, entries, clusterDirs, ref, time) ==
    LET repoRoot == findRepoRoot(disk, dir)
    IN  IF ~repoRoot.found THEN NullContext
        ELSE Context(ref, repoRoot.root, scanApps(entries, 1, EmptyMap),
                     scanNodes(clusterDirs, 1, <<>>), time)

(***************************************************************************)
(* Loop detection and the decision table of validate-command.              *)
(***************************************************************************)
\* LoopDetection with the else branch forgetting state.loopCount = 0
LoopDetection_KeepsCount(state, command) ==
    IF HasScalars(state) /\ command = state.lastCommand
    THEN LET n == state.loopCount + 1
         IN  IF n >= LoopThreshold
             THEN [detected |-> TRUE, state |-> [state EXCEPT !.loopCount = 0]]
             ELSE [detected |-> FALSE, state |-> [state EXCEPT !.loopCount = n]]
    ELSE [detected |-> FALSE,
          state |-> [state EXCEPT !.kind = IF HasLists(state) THEN "full" ELSE "partial",
                                  !.lastCommand = command]]

\* LoopDetection saving the raised counter on a detected loop
LoopDetection_NoReset(state, command) ==
    IF HasScalars(state) /\ command = state.lastCommand
    THEN LET n == state.loopCount + 1
         IN  [detected |-> n >= LoopThreshold,
              state |-> [state EXCEPT !.loopCount = n]]
    ELSE [detected |-> FALSE,
          state |-> [state EXCEPT !.kind = IF HasLists(state) THEN "full" ELSE "partial",
                                  !.lastCommand = command,
                                  !.loopCount = 0]]

\* if (command === state.lastCommand) { state.loopCount++ ... } else { ... }
\* An object without lastCommand never compares equal; the assignments of
\* the else branch give it the two scalar fields.
LoopDetection(state, command) ==
    IF HasScalars(state) /\ command = state.lastCommand
    THEN LET n == state.loopCount + 1
         IN  IF n >= LoopThreshold
             THEN [detected |-> TRUE, state |-> [state EXCEPT !.loopCount = 0]]
             ELSE [detected |-> FALSE, state |-> [state EXCEPT !.loopCount = n]]
    ELSE [detected |-> FALSE,
          state |-> [state EXCEPT !.kind = IF HasLists(state) THEN "full" ELSE "partial",
                                  !.lastCommand = command,
                                  !.loopCount = 0]]

\* LoopRule starting the session afresh: the two lists are emptied
LoopRule_ClearsLists(state) ==
    <<Log("deny", "loop-detected"),
      Save([state EXCEPT !.validatedApps = <<>>, !.diffedApps = <<>>]),
      Exit(ExitSuccess)>>

\* LoopRule saving before it prints the decision
LoopRule_SaveFirst(state) ==
    <<Save(state), Log("deny", "loop-detected"), Exit(ExitSuccess)>>

\* the branch taken when the loop counter reached the threshold
LoopRule(state) == <<Log("deny", "loop-detected"), Save(state), Exit(ExitSuccess)>>

\* KubectlRule letting bootstrap mode through without asking
KubectlRule_BootstrapAllows(bootstrap, state) ==
    IF bootstrap
    THEN <<Save(state), Exit(ExitSuccess)>>
    ELSE <<Log("deny", "kubectl-blocked"), Save(state), Exit(ExitSuccess)>>

KubectlRule(bootstrap, state) ==
    IF bootstrap
    THEN <<Log("ask", "kubectl-bootstrap"), Save(state), Exit(ExitSuccess)>>
    ELSE <<Log("deny", "kubectl-blocked"), Save(state), Exit(ExitSuccess)>>

\* HelmInstallRule leaving on a deny without saving
HelmInstallRule_DenyUnsaved(bootstrap, state) ==
    IF bootstrap
    THEN <<Log("ask", "helm-bootstrap"), Save(state), Exit(ExitSuccess)>>
    ELSE <<Log("deny", "helm-blocked"), Exit(ExitSuccess)>>

HelmInstallRule(bootstrap, state) ==
    IF bootstrap
    THEN <<Log("ask", "helm-bootstrap"), Save(state), Exit(ExitSuccess)>>
    ELSE <<Log("deny", "helm-blocked"), Save(state), Exit(ExitSuccess)>>

\* HelmTemplateRule starting the diff list afresh on every render
HelmTemplateRule_ForgetsDiffs(command, state) ==
    LET match == MatchAfter(command, <<"helm", "template">>)
    IN  IF match = <<>> THEN <<Save(state), Exit(ExitSuccess)>>
        ELSE IF ~HasLists(state) THEN <<Throw>>
        ELSE <<Save([state EXCEPT !.validatedApps = Append(@, match[1]),
                                  !.diffedApps = <<>>]),
               Exit(ExitSuccess)>>

\* state.validatedApps.push(match[1]) throws when validatedApps is undefined
HelmTemplateRule(command, state) ==
    LET match == MatchAfter(command, <<"helm", "template">>)
    IN  IF match = <<>> THEN <<Save(state), Exit(ExitSuccess)>>
        ELSE IF ~HasLists(state) THEN <<Throw>>
        ELSE <<Save([state EXCEPT !.validatedApps = Append(@, match[1])]),
               Exit(ExitSuccess)>>

\* ArgoDiffRule putting the name in front of the list (unshift for push)
ArgoDiffRule_Unshift(command, state) ==
    LET match == MatchAfter(command, <<"argocd", "app", "diff">>)
    IN  IF match = <<>> THEN <<Save(state), Exit(ExitSuccess)>>
        ELSE IF ~HasLists(state) THEN <<Throw>>
        ELSE <<Save([state EXCEPT !.diffedApps = <<match[1]>> \o @]),
               Exit(ExitSuccess)>>

ArgoDiffRule(command, state) ==
    LET match == MatchAfter(command, <<"argocd", "app", "diff">>)
    IN  IF match = <<>> THEN <<Save(state), Exit(ExitSuccess)>>
        ELSE IF ~HasLists(state) THEN <<Throw>>
        ELSE <<Save([state EXCEPT !.diffedApps = Append(@, match[1])]),
               Exit(ExitSuccess)>>

\* ArgoSyncRule letting a diffed app sync without asking
ArgoSyncRule_DiffGrantsSync(command, state) ==
    LET match == MatchAfter(command, <<"argocd", "app", "sync">>)
        appName == IF match = <<>> THEN "unknown" ELSE match[1]
    IN  IF ~HasLists(state) THEN <<Throw>>
        ELSE IF ~Includes(state.diffedApps, appName)
        THEN <<Log("ask", "sync-without-diff"), Save(state), Exit(ExitSuccess)>>
        ELSE <<Save(state), Exit(ExitSuccess)>>

\* state.diffedApps.includes(appName) throws when diffedApps is undefined
ArgoSyncRule(command, state) ==
    LET match == MatchAfter(command, <<"argocd", "app", "sync">>)
        appName == IF match = <<>> THEN "unknown" ELSE match[1]
    IN  IF ~HasLists(state) THEN <<Throw>>
        ELSE IF ~Includes(state.diffedApps, appName)
        THEN <<Log("ask", "sync-without-diff"), Save(state), Exit(ExitSuccess)>>
        ELSE <<Log("ask", "sync-prefer-push"), Save(state), Exit(ExitSuccess)>>

GitPushRule(state) == <<Save(state), Exit(ExitSuccess)>>

DefaultRule(state) == <<Save(state), Exit(ExitSuccess)>>

\* Classify with the render rule tested before the blocked patterns
Classify_RenderFirst(command, bootstrap, state) ==
    IF HelmTemplatePattern(command) THEN HelmTemplateRule(command, state)
    ELSE IF KubectlPattern(command) THEN KubectlRule(bootstrap, state)
    ELSE IF HelmInstallPattern(command) THEN HelmInstallRule(bootstrap, state)
    ELSE IF ArgoDiffPattern(command) THEN ArgoDiffRule(command, state)
    ELSE IF ArgoSyncPattern(command) THEN ArgoSyncRule(command, state)
    ELSE IF GitPushPattern(command) THEN GitPushRule(state)
    ELSE DefaultRule(state)

\* the if-chain after loop detection
Classify(command, bootstrap, state) ==
    IF KubectlPattern(command) THEN KubectlRule(bootstrap, state)
    ELSE IF HelmInstallPattern(command) THEN HelmInstallRule(bootstrap, state)
    ELSE IF HelmTemplatePattern(command) THEN HelmTemplateRule(command, state)
    ELSE IF ArgoDiffPattern(command) THEN ArgoDiffRule(command, state)
    ELSE IF ArgoSyncPattern(command) THEN ArgoSyncRule(command, state)
    ELSE IF GitPushPattern(command) THEN GitPushRule(state)
    ELSE DefaultRule(state)

\* any non-empty value of the variable switches bootstrap mode on
IsBootstrap_Truthy(env) == env # ""

\* process.env.TALOS_GITOPS_BOOTSTRAP === "true"
IsBootstrap(env) == env = "true"

(***************************************************************************)
(* Events.  kind tells what the hook reads from stdin:                     *)
(*   "garbage"      not parseable as JSON                                  *)
(*   "null"         the JSON value null                                    *)
(*   "noTool"       an object without tool_name                            *)
(*   "otherTool"    tool_name other than "Bash"                            *)
(*   "noToolInput"  tool_name "Bash", no tool_input                        *)
(*   "noCommand"    tool_name "Bash", tool_input without command (or "")   *)
(*   "bash"         tool_name "Bash" and tool_input.command                *)
(***************************************************************************)
Event(k, c) == [kind |-> k, command |-> c]

\* (hookInput.tool_input.command as string) || ""
CommandOf(input) == IF input.kind = "bash" THEN input.command ELSE <<>>

\* main() noting the command in the session state before it looks for the
\* repository
main_TracksOutsideRepo(input, disk, dir, env, file) ==
    IF input.kind = "garbage" THEN <<Exit(ExitSuccess)>>
    ELSE IF input.kind = "null" THEN <<Throw>>
    ELSE IF input.kind \in {"noTool", "otherTool"} THEN <<Exit(ExitSuccess)>>
    ELSE IF input.kind = "noToolInput" THEN <<Throw>>
    ELSE LET command == CommandOf(input)
             state == loadSessionState(file)
         IN  IF state.kind = "null" THEN <<Throw>>
             ELSE LET loop == LoopDetection(state, command)
                  IN  IF ~isGitOpsRepo(disk, dir)
                      THEN <<Save(loop.state), Exit(ExitSuccess)>>
                      ELSE IF loop.detected THEN LoopRule(loop.state)
                      ELSE Classify(command, IsBootstrap(env), loop.state)

\* the body of main(), as the effects it performs in order
main(input, disk, dir, env, file) ==
    IF input.kind = "garbage" THEN <<Exit(ExitSuccess)>>
    ELSE IF input.kind = "null" THEN <<Throw>>
    ELSE IF input.kind \in {"noTool", "otherTool"} THEN <<Exit(ExitSuccess)>>
    ELSE IF input.kind = "noToolInput" THEN <<Throw>>
    ELSE IF ~isGitOpsRepo(disk, dir) THEN <<Exit(ExitSuccess)>>
    ELSE LET command == CommandOf(input)
             state == loadSessionState(file)
         IN  IF state.kind = "null" THEN <<Throw>>
             ELSE LET loop == LoopDetection(state, command)
                  IN  IF loop.detected THEN LoopRule(loop.state)
                      ELSE Classify(command, IsBootstrap(env), loop.state)

(***************************************************************************)
(* Running the effects.  A rejected Bun.write and a TypeError both reject  *)
(* main()'s promise; main().catch logs "Hook error:" and exits.            *)
(***************************************************************************)
Outcome(f, out, err, code, res, st) ==
    [file |-> f, stdout |-> out, stderr |-> err, exitCode |-> code,
     saveResult |-> res, saved |-> st]

\* main().catch((error) => { console.error(...); process.exit(0); })
Catch(acc) == [acc EXCEPT !.stderr = TRUE, !.exitCode = <<ExitSuccess>>]

RECURSIVE Exec(_, _, _, _)
Exec(effects, i, acc, writeOk) ==
    IF i > Len(effects) THEN acc
    ELSE LET e == effects[i]
         IN  CASE e.op = "log" ->
                    Exec(effects, i + 1,
                         [acc EXCEPT !.stdout = Append(@, [decision |-> e.decision,
                                                           reason |-> e.reason])],
                         writeOk)
               [] e.op = "save" ->
                    IF writeOk
                    THEN Exec(effects, i + 1,
                              [acc EXCEPT !.file = saveSessionState(e.state),
                                          !.saveResult = "ok", !.saved = e.state],
                              writeOk)
                    ELSE Catch([acc EXCEPT !.saveResult = "failed", !.saved = e.state])
               [] e.op = "throw" -> Catch(acc)
               [] OTHER -> [acc EXCEPT !.exitCode = <<e.code>>]

Run(input, disk, dir, env, file, writeOk) ==
    Exec(main(input, disk, dir, env, file), 1,
         Outcome(file, <<>>, FALSE, <<>>, "none", DefaultState), writeOk)

(***************************************************************************)
(* The inputs the hook is run on.                                          *)
(***************************************************************************)
Commands == {
    <<"kubectl", "get", "pods">>,
    <<"helm", "upgrade", "x">>,
    <<"helm", "template", "x">>,
    <<"helm", "template">>,
    <<"argocd", "app", "diff", "x">>,
    <<"argocd", "app", "diff", "y">>,
    <<"argocd", "app", "diff">>,
    <<"argocd", "app", "sync", "x">>,
    <<"git", "push">>,
    <<"ls">>,
    <<"helm", "template", "x", "|", "kubectl", "apply", "-f", "-">>,
    <<"kubectl", "get", "pods", "&&", "helm", "upgrade", "x">>,
    <<"helm", "template", "x", "&&", "helm", "install", "x">>,
    <<"argocd", "app", "diff", "y", "&&", "helm", "template", "x">>,
    <<"argocd", "app", "sync", "x", "&&", "argocd", "app", "diff", "x">>,
    <<"git", "push", "&&", "argocd", "app", "sync", "x">> }

HookInputs ==
    {Event(k, <<>>) : k \in {"garbage", "null", "noTool", "otherTool",
                             "noToolInput", "noCommand"}}
    \cup {Event("bash", c) : c \in Commands}

\* values of TALOS_GITOPS_BOOTSTRAP ("" stands for unset)
EnvValues == {"", "true", "1"}

\* /srv/gitops is a repository (it holds apps/); /home/dev is outside any
Disk == { <<"srv">>, <<"srv", "gitops">>, <<"srv", "gitops", "apps">>,
          <<"srv", "gitops", "apps", "web">>, <<"home">>, <<"home", "dev">> }

WorkDirs == { <<"home", "dev">>, <<"srv", "gitops", "apps", "web">> }

(***************************************************************************)
(* The state machine.  Hook processes run one after the other; what a run  *)
(* read and printed stays observable until the process is gone (HookDone). *)
(***************************************************************************)
(***************************************************************************)
(* The pre-tool edit hook (validate-yaml) with url-checker and the values  *)
(* checks of helm-validator.                                               *)
(*                                                                         *)
(* A string is the sequence of the pieces the hook tells apart: a file     *)
(* path ends with its suffix piece and has "application" or "values" as a  *)
(* piece when the name holds that word; a URL begins with its scheme       *)
(* piece.  The edited content is [yaml, sources, ignoreDifferences,        *)
(* lines]: yaml is what parseYaml makes of it ("invalid" when it throws,   *)
(* "null", "other" for a document that is no Application, "application"),  *)
(* sources its spec.sources, lines its text lines.  A source is            *)
(* [null, repoURL, chart, targetRevision]; null marks a list item that is  *)
(* the YAML null.  The remote side is [host, index, base]: the host is     *)
(* "down" (timeout or network error) or "up", index tells whether          *)
(* <repo>/index.yaml is "served" or "missing" and base whether the repo    *)
(* URL itself answers a HEAD request with 2xx.                             *)
(***************************************************************************)
StartsWith(text, piece) == text # <<>> /\ text[1] = piece

EndsWith(text, piece) == text # <<>> /\ text[Len(text)] = piece

TextIncludes(text, piece) == \E i \in 1..Len(text) : text[i] = piece

\* a ValidationError; line 0 and fix <<>> stand for an absent field
ValidationError(file, line, severity, message, fix) ==
    [file |-> file, line |-> line, severity |-> severity,
     message |-> message, fix |-> fix]

\* repoError.file = filePath
WithFile(errors, filePath) ==
    [i \in 1..Len(errors) |-> [errors[i] EXCEPT !.file = filePath]]

\* what one validator hands back: the errors it found and the requests it
\* sent
Checked(errors, probes) == [errors |-> errors, probes |-> probes]

\* fetch(url, {method: "HEAD"}): ok is response.ok, and a rejected fetch
\* (timeout, network error) is ok: false
checkUrl(remote, target) ==
    IF remote.host = "down" THEN [ok |-> FALSE, failed |-> TRUE]
    ELSE [ok |-> remote[target] \in {"served", "ok"}, failed |-> FALSE]

\* /^oci:\/\/[\w.-]+\/[\w./-]+$/ on the pieces scheme, registry, "/", path
OciPattern(repoUrl) ==
    /\ Len(repoUrl) = 4
    /\ repoUrl[1] = "oci://"
    /\ repoUrl[2] = "ghcr.io"
    /\ repoUrl[3] = "/"
    /\ repoUrl[4] = "org/charts"

\* validateChartRepo
validateChartRepo(remote, repoUrl) ==
    IF StartsWith(repoUrl, "oci://")
    THEN Checked(IF ~OciPattern(repoUrl)
                 THEN <<ValidationError(<<>>, 0, "error",
                                        <<"Malformed OCI URL: ">> \o repoUrl,
                                        <<"OCI URLs should be: oci://registry/path">>)>>
                 ELSE <<>>,
                 <<>>)
    ELSE Checked(IF ~checkUrl(remote, "index").ok
                 THEN <<ValidationError(<<>>, 0, "error",
                                        <<"Helm repo unreachable: ">> \o repoUrl,
                                        <<"Check the repo URL is correct and accessible">>)>>
                 ELSE <<>>,
                 <<<<"HEAD", "index.yaml">> \o repoUrl>>)

\* the versions the served index lists
IndexVersions == {"1.0.0"}

\* validateChartVersion without the early return for OCI registries
validateChartVersion_NoOciSkip(remote, repoUrl, chartName, version) ==
    IF version \in {"HEAD", "latest", "*"} THEN Checked(<<>>, <<>>)
    ELSE Checked(IF remote.host = "down"
                 THEN <<ValidationError(<<>>, 0, "warning",
                                        <<"Could not verify chart version: ">>, <<>>)>>
                 ELSE <<>>,
                 <<<<"GET", "index.yaml">> \o repoUrl>>)

\* validateChartVersion
validateChartVersion(remote, repoUrl, chartName, version) ==
    IF version \in {"HEAD", "latest", "*"} THEN Checked(<<>>, <<>>)
    ELSE IF StartsWith(repoUrl, "oci://") THEN Checked(<<>>, <<>>)
    ELSE Checked(
            IF remote.host = "down"
            THEN <<ValidationError(<<>>, 0, "warning",
                                   <<"Could not verify chart version: ">>, <<>>)>>
            ELSE IF remote.index # "served"
            THEN <<ValidationError(<<>>, 0, "error",
                                   <<"Cannot fetch chart index: ">> \o repoUrl, <<>>)>>
            ELSE IF version \notin IndexVersions
            THEN <<ValidationError(<<>>, 0, "error",
                                   <<"Chart version not found: ", chartName, "@", version>>,
                                   <<"Check available versions with: helm search repo ",
                                     chartName, " --versions">>)>>
            ELSE <<>>,
            <<<<"GET", "index.yaml">> \o repoUrl>>)

\* the body of for (const source of sources), for one source that is an
\* object
validateSource(remote, source, filePath) ==
    LET asChart == source.repoURL # <<>> /\ ~StartsWith(source.repoURL, "git@")
        repo == IF asChart THEN validateChartRepo(remote, source.repoURL)
                ELSE Checked(<<>>, <<>>)
        version == IF asChart /\ source.chart # "" /\ source.targetRevision # ""
                   THEN validateChartVersion(remote, source.repoURL, source.chart,
                                             source.targetRevision)
                   ELSE Checked(<<>>, <<>>)
        asGit == StartsWith(source.repoURL, "https://")
        git == IF asGit /\ ~checkUrl(remote, "base").ok
               THEN <<ValidationError(filePath, 0, "error",
                                      <<"Git repo unreachable: ">> \o source.repoURL,
                                      <<>>)>>
               ELSE <<>>
    IN  Checked(WithFile(repo.errors, filePath) \o WithFile(version.errors, filePath)
                    \o git,
                repo.probes \o version.probes
                    \o (IF asGit THEN <<<<"HEAD">> \o source.repoURL>> ELSE <<>>))

\* the loop over the sources putting the entries of a later source first
RECURSIVE validateSources_NewestFirst(_, _, _, _, _)
validateSources_NewestFirst(remote, sources, filePath, i, acc) ==
    IF i > Len(sources) THEN [threw |-> FALSE, checked |-> acc]
    ELSE IF sources[i].null THEN [threw |-> TRUE, checked |-> acc]
    ELSE LET one == validateSource(remote, sources[i], filePath)
         IN  validateSources_NewestFirst(remote, sources, filePath, i + 1,
                                         Checked(one.errors \o acc.errors,
                                                 one.probes \o acc.probes))

\* the loop over the sources; a source that is null makes source.repoURL
\* throw, which ends the try block
RECURSIVE validateSources(_, _, _, _, _)
validateSources(remote, sources, filePath, i, acc) ==
    IF i > Len(sources) THEN [threw |-> FALSE, checked |-> acc]
    ELSE IF sources[i].null THEN [threw |-> TRUE, checked |-> acc]
    ELSE LET one == validateSource(remote, sources[i], filePath)
         IN  validateSources(remote, sources, filePath, i + 1,
                             Checked(acc.errors \o one.errors,
                                     acc.probes \o one.probes))

\* the ignoreDifferences warnings, one per chart named harbor or argocd
RECURSIVE needsIgnoreDifferences(_, _, _, _)
needsIgnoreDifferences(content, filePath, i, acc) ==
    IF i > Len(content.sources) THEN acc
    ELSE LET chart == content.sources[i].chart
         IN  needsIgnoreDifferences(content, filePath, i + 1,
                IF chart \in {"harbor", "argocd"} /\ ~content.ignoreDifferences
                THEN Append(acc,
                        ValidationError(filePath, 0, "warning",
                            <<chart, " chart typically needs ignoreDifferences for auto-generated secrets">>,
                            <<"Add ignoreDifferences for secrets that change on each helm render">>))
                ELSE acc)

\* validateApplicationYaml
validateApplicationYaml(remote, content, filePath) ==
    IF content.yaml # "application" THEN Checked(<<>>, <<>>)
    ELSE LET looped == validateSources(remote, content.sources, filePath, 1,
                                       Checked(<<>>, <<>>))
         IN  IF looped.threw
             THEN Checked(Append(looped.checked.errors,
                                 ValidationError(filePath, 0, "error",
                                                 <<"Failed to parse Application: ">>,
                                                 <<>>)),
                          looped.checked.probes)
             ELSE Checked(needsIgnoreDifferences(content, filePath, 1,
                                                 looped.checked.errors),
                          looped.checked.probes)

\* helm-validator checkTolerations(valuesPath): reads the file on disk; one
\* warning per tolerations list without a control-plane toleration
checkTolerations(file, valuesPath) ==
    IF ~file.readable THEN <<>>
    ELSE [i \in 1..Len(file.tolerations) |->
            ValidationError(valuesPath, 0, "warning",
                <<"Tolerations at ", file.tolerations[i],
                  " may be missing control-plane toleration">>,
                <<"Add: { key: node-role.kubernetes.io/control-plane, operator: Exists, effect: NoSchedule }">>)]

\* the mistake a line shows, by its pattern
Mistake(line) ==
    IF line = "master:"
    THEN [message |-> <<"Bitnami charts use 'primary:' not 'master:'">>,
          fix |-> <<"Replace 'master:' with 'primary:'">>]
    ELSE IF line = "cpu: 1000m"
    THEN [message |-> <<"CPU value '1000m' will normalize to '1', may cause drift">>,
          fix |-> <<"Use 'cpu: 1' instead of 'cpu: 1000m'">>]
    ELSE IF line = "existingSecretPasswordKey:"
    THEN [message |-> <<"Many charts require the key to be exactly 'password'">>,
          fix |-> <<"Check chart docs for required secret key name">>]
    ELSE [message |-> <<>>, fix |-> <<>>]

\* helm-validator checkCommonMistakes(valuesPath): reads the file on disk;
\* one warning per line that shows a mistake, with line = i + 1
RECURSIVE checkCommonMistakes(_, _, _, _)
checkCommonMistakes(file, valuesPath, i, acc) ==
    IF ~file.readable \/ i > Len(file.lines) THEN acc
    ELSE checkCommonMistakes(file, valuesPath, i + 1,
            IF Mistake(file.lines[i]).message # <<>>
            THEN Append(acc, ValidationError(valuesPath, i, "warning",
                                             Mistake(file.lines[i]).message,
                                             Mistake(file.lines[i]).fix))
            ELSE acc)

\* validateValuesYaml: the two helm-validator checks are handed filePath and
\* read the file as it is on disk; the hostNetwork checks read the content
validateValuesYaml(content, filePath, file) ==
    LET hostNetwork == TextIncludes(content.lines, "hostNetwork: true")
        recreate == TextIncludes(content.lines, "strategy: Recreate")
    IN  checkTolerations(file, filePath)
        \o checkCommonMistakes(file, filePath, 1, <<>>)
        \o (IF hostNetwork
            THEN <<ValidationError(filePath, 0, "warning",
                       <<"hostNetwork requires privileged PSA namespace">>,
                       <<"Ensure namespace has pod-security.kubernetes.io/enforce: privileged">>)>>
            ELSE <<>>)
        \o (IF hostNetwork /\ ~recreate
            THEN <<ValidationError(filePath, 0, "warning",
                       <<"hostNetwork deployments should use Recreate strategy">>,
                       <<"Add deploymentStrategy.type: Recreate">>)>>
            ELSE <<>>)

\* errors.filter((e) => e.severity === severity)
BySeverity(errors, severity) ==
    SelectSeq(errors, LAMBDA e : e.severity = severity)

\* `${e.file}${loc}: ${e.message}${fix}`
Format(e, withFix) ==
    e.file \o (IF e.line # 0 THEN <<":", ToString(e.line), ": ">> ELSE <<": ">>)
           \o e.message
           \o (IF withFix /\ e.fix # <<>> THEN <<" Fix: ">> \o e.fix ELSE <<>>)

\* outputErrors whose ask reason carries the fix texts as the deny reason does
outputErrors_AskShowsFix(errors) ==
    LET blockingErrors == BySeverity(errors, "error")
        warnings == BySeverity(errors, "warning")
    IN  IF blockingErrors # <<>>
        THEN <<[decision |-> "deny", head |-> "Validation errors:",
                lines |-> [i \in 1..Len(blockingErrors) |->
                              Format(blockingErrors[i], TRUE)],
                tail |-> ""]>>
        ELSE IF warnings # <<>>
        THEN <<[decision |-> "ask", head |-> "Warnings:",
                lines |-> [i \in 1..Len(warnings) |-> Format(warnings[i], TRUE)],
                tail |-> "Proceed anyway?"]>>
        ELSE <<>>

\* outputErrors: what it prints before process.exit(0); the reason is head,
\* the lines joined by "\n", and tail
outputErrors(errors) ==
    LET blockingErrors == BySeverity(errors, "error")
        warnings == BySeverity(errors, "warning")
    IN  IF blockingErrors # <<>>
        THEN <<[decision |-> "deny", head |-> "Validation errors:",
                lines |-> [i \in 1..Len(blockingErrors) |->
                              Format(blockingErrors[i], TRUE)],
                tail |-> ""]>>
        ELSE IF warnings # <<>>
        THEN <<[decision |-> "ask", head |-> "Warnings:",
                lines |-> [i \in 1..Len(warnings) |-> Format(warnings[i], FALSE)],
                tail |-> "Proceed anyway?"]>>
        ELSE <<>>

\* an event of the edit hook.  kind: "garbage" is not JSON, "null" the JSON
\* null, "noToolInput" an event without tool_input, "tool" a whole event
EditEvent(kind, tool, path, content) ==
    [kind |-> kind, tool |-> tool, path |-> path, content |-> content]

\* what a run of the edit hook leaves: the collected errors, whether
\* outputErrors was reached, the checks run, the requests sent, the output
EditOutcome(collected, aggregated, checks, probes, out, err) ==
    [done |-> TRUE, collected |-> collected, aggregated |-> aggregated,
     checks |-> checks, probes |-> probes, stdout |-> out, stderr |-> err,
     exitCode |-> <<ExitSuccess>>]

\* the edit hook that lets unparseable content through the lint
lintYaml_Silent(content, filePath) == <<>>

\* 1. Lint YAML syntax: try { parseYaml(content) } catch { errors.push }
lintYaml(content, filePath) ==
    IF content.yaml = "invalid"
    THEN <<ValidationError(filePath, 0, "error", <<"Invalid YAML: ">>, <<>>)>>
    ELSE <<>>

\* main of validate-yaml with main().catch
validateYamlMain(input, disk, dir, remote, file) ==
    LET filePath == input.path
        content == input.content
        lint == lintYaml(content, filePath)
        isApplication == TextIncludes(filePath, "application")
        isValues == TextIncludes(filePath, "values")
        app == IF isApplication
               THEN validateApplicationYaml(remote, content, filePath)
               ELSE Checked(<<>>, <<>>)
        values == IF isValues THEN validateValuesYaml(content, filePath, file)
                  ELSE <<>>
        errors == app.errors \o values
    IN  IF input.kind = "garbage"
        THEN EditOutcome(<<>>, FALSE, {}, <<>>, <<>>, FALSE)
        ELSE IF input.kind = "null"
        THEN EditOutcome(<<>>, FALSE, {}, <<>>, <<>>, TRUE)
        ELSE IF input.tool \notin {"Edit", "Write"}
        THEN EditOutcome(<<>>, FALSE, {}, <<>>, <<>>, FALSE)
        ELSE IF input.kind = "noToolInput"
        THEN EditOutcome(<<>>, FALSE, {}, <<>>, <<>>, TRUE)
        ELSE IF ~EndsWith(filePath, ".yaml") /\ ~EndsWith(filePath, ".yml")
        THEN EditOutcome(<<>>, FALSE, {}, <<>>, <<>>, FALSE)
        ELSE IF ~isGitOpsRepo(disk, dir)
        THEN EditOutcome(<<>>, FALSE, {}, <<>>, <<>>, FALSE)
        ELSE IF lint # <<>>
        THEN EditOutcome(lint, TRUE, {}, <<>>, outputErrors(lint), FALSE)
        ELSE EditOutcome(errors, TRUE,
                         {c \in {"application", "values"} :
                             \/ c = "application" /\ isApplication
                             \/ c = "values" /\ isValues},
                         app.probes, outputErrors(errors), FALSE)

\* the content of an event that carries none: content || new_string || ""
NoContent == [yaml |-> "null", sources |-> <<>>, ignoreDifferences |-> FALSE,
              lines |-> <<>>]

\* the repository and chart index answer
AllUp == [host |-> "up", index |-> "served", base |-> "ok"]

\* the values file is not on disk (readFile rejects)
NoFile == [readable |-> FALSE, lines |-> <<>>, tolerations |-> <<>>]

\* no run of the edit hook to look at
NotRun ==
    [done |-> FALSE, collected |-> <<>>, aggregated |-> FALSE, checks |-> {},
     probes |-> <<>>, stdout |-> <<>>, stderr |-> FALSE, exitCode |-> <<>>]

EditAtRest ==
    /\ editInput = EditEvent("none", "", <<>>, NoContent)
    /\ editDir = <<>>
    /\ editEnv = [remote |-> AllUp, file |-> NoFile]
    /\ editRun = NotRun
    /\ editAgain = NotRun

\* names of the entries of <repoRoot>/apps, by position, and the node names
\* of the patch files, by position
AppPool == <<"web", "db", "cache", "queue">>

PatchPool == <<"cp1", "w1", "w2", "w3">>

\* the async callers of detectClusterContext in one process
Callers == {"c1", "c2"}

\* the clock advances in steps of half the TTL, from an instant later than
\* one TTL after the epoch
TickMs == CACHE_TTL \div 2

StartTime == 2 * CACHE_TTL

\* what is known of the latest completed call: none yet
NoPrior == [called |-> FALSE, result |-> NullContext, invalidated |-> FALSE]

\* a caller that has no call under way
IdleCall ==
    [pc |-> "idle", dir |-> <<>>, startedAt |-> 0, seen |-> {},
     overlapped |-> {}, invalidatedSince |-> FALSE, root |-> <<>>,
     apps |-> EmptyMap, nodes |-> <<>>, result |-> NullContext,
     before |-> NoPrior, staleReads |-> FALSE]

\* the repository of Disk, without apps and clusters entries
RepoAtRest ==
    /\ tree = Disk
    /\ appDirs = <<>>
    /\ clusters = <<>>

\* findRepoRoot has not been called
NotSearched == [done |-> FALSE, result |-> NotFound]

\* detectClusterContext has not been called
NotDetected == [done |-> FALSE, context |-> NullContext]

DetectAtRest ==
    /\ startDir = <<>>
    /\ foundRoot = NotSearched
    /\ detected = NotDetected

\* let cachedContext = null; let cacheTime = 0
CacheAtRest ==
    /\ now = StartTime
    /\ cachedContext = NullContext
    /\ cacheTime = 0
    /\ calls = [c \in Callers |-> IdleCall]
    /\ nextRef = 1
    /\ prior = NoPrior

\* the hook processes that may run at the same time
Invokers == {"i1", "i2"}

NotInvoked ==
    [pc |-> "idle", input |-> Event("none", <<>>), file |-> Blank("absent")]

NoWrite ==
    [by |-> "none", input |-> Event("none", <<>>), file |-> Blank("absent"),
     saved |-> DefaultState]

RaceAtRest ==
    /\ racers = [i \in Invokers |-> NotInvoked]
    /\ lastWrite = NoWrite
    /\ recorded = {}
    /\ invocations = 0

\* no in-repo command processed yet
LoopAtRest == history = <<>>

\* the watcher before it has read an event
NotWatching ==
    [pc |-> "idle", input |-> Event("none", <<>>), dir |-> <<>>,
     startTime |-> 0, clock |-> 0, polls |-> 0, pending |-> 0,
     sincePoll |-> 0, lastStatus |-> <<>>, polled |-> <<>>,
     reports |-> <<>>, exitCode |-> <<>>]

SyncAtRest == watch = NotWatching

Idle ==
    /\ hookInput = Event("none", <<>>)
    /\ cwd = <<>>
    /\ bootstrapMode = FALSE
    /\ bootstrapEnv = ""
    /\ stdout = <<>>
    /\ stderr = FALSE
    /\ exitCode = <<>>
    /\ saveResult = "none"
    /\ saved = DefaultState

HookAtRest ==
    /\ stateFile = Blank("absent")
    /\ prevFile = Blank("absent")
    /\ Idle

Init ==
    /\ HookAtRest
    /\ RepoAtRest
    /\ DetectAtRest
    /\ CacheAtRest
    /\ EditAtRest
    /\ RaceAtRest
    /\ LoopAtRest
    /\ SyncAtRest

\* one run of the validate-command hook on one event
ValidateCommand ==
    /\ exitCode = <<>>
    /\ \E input \in HookInputs, dir \in WorkDirs, env \in EnvValues, writeOk \in BOOLEAN :
        LET run == Run(input, Disk, dir, env, stateFile, writeOk)
        IN  /\ Len(run.saved.validatedApps) + Len(run.saved.diffedApps) <= MaxApps
            /\ hookInput' = input
            /\ cwd' = dir
            /\ bootstrapMode' = IsBootstrap(env)
            /\ bootstrapEnv' = env
            /\ prevFile' = stateFile
            /\ stateFile' = run.file
            /\ stdout' = run.stdout
            /\ stderr' = run.stderr
            /\ exitCode' = run.exitCode
            /\ saveResult' = run.saveResult
            /\ saved' = run.saved
    /\ UNCHANGED <<repoVars, detectVars, cacheVars, editVars, raceVars, loopVars, syncVars>>

\* the hook process has exited: nothing of it is left but the state file
HookDone ==
    /\ exitCode # <<>>
    /\ hookInput' = Event("none", <<>>)
    /\ cwd' = <<>>
    /\ bootstrapMode' = FALSE
    /\ bootstrapEnv' = ""
    /\ stdout' = <<>>
    /\ stderr' = FALSE
    /\ exitCode' = <<>>
    /\ saveResult' = "none"
    /\ saved' = DefaultState
    /\ prevFile' = stateFile
    /\ UNCHANGED <<stateFile, repoVars, detectVars, cacheVars, editVars, raceVars, loopVars, syncVars>>

\* between two runs something else overwrites the state file with content
\* that is not a SessionState: unparseable text, null, or {}
CorruptStateFile ==
    /\ exitCode = <<>>
    /\ \E k \in {"garbage", "null", "empty"} : stateFile' = Blank(k)
    /\ prevFile' = stateFile'
    /\ UNCHANGED <<hookInput, cwd, bootstrapMode, bootstrapEnv, stdout, stderr,
                   exitCode, saveResult, saved, repoVars, detectVars,
                   cacheVars, editVars, raceVars, loopVars, syncVars>>

\* between two runs the state file is removed (/tmp is cleaned)
RemoveStateFile ==
    /\ exitCode = <<>>
    /\ stateFile.kind # "absent"
    /\ stateFile' = Blank("absent")
    /\ prevFile' = stateFile'
    /\ UNCHANGED <<hookInput, cwd, bootstrapMode, bootstrapEnv, stdout, stderr,
                   exitCode, saveResult, saved, repoVars, detectVars,
                   cacheVars, editVars, raceVars, loopVars, syncVars>>

Next == ValidateCommand \/ HookDone \/ CorruptStateFile \/ RemoveStateFile

Spec == Init /\ [][Next]_vars

(***************************************************************************)
(* What the properties speak about.                                        *)
(***************************************************************************)
\* a hook run has ended and is still observable
Ran == exitCode # <<>>

\* the event is a Bash event whose command the hook went on to read
BashEvent == hookInput.kind \in {"bash", "noCommand"}

command == CommandOf(hookInput)

\* the working directory lies in a repository: it or a directory above it,
\* the filesystem root excepted, holds a marker
InsideRepo ==
    \E k \in 1..Len(cwd) : \E i \in 1..Len(Markers) :
        Append(SubSeq(cwd, 1, k), Markers[i]) \in Disk

\* a run that got as far as the decision table
InRepoCommand == Ran /\ BashEvent /\ InsideRepo

\* what the run loaded from the state file
loaded == loadSessionState(prevFile)

\* the run loaded a value of the SessionState shape
LoadedSessionState == loaded.kind = "full"

\* no printed decision means allow
Decision == IF stdout = <<>> THEN "allow" ELSE stdout[1].decision

Reason == IF stdout = <<>> THEN "" ELSE stdout[1].reason

\* the run is the one that raises the loop counter to 2
LoopFires == command = loaded.lastCommand /\ loaded.loopCount + 1 >= 2

\* the first rule of the decision table that applies to the run
FirstRule ==
    IF LoopFires THEN "loop"
    ELSE IF KubectlPattern(command) THEN "kubectl"
    ELSE IF HelmInstallPattern(command) THEN "helm"
    ELSE IF HelmTemplatePattern(command) THEN "render"
    ELSE IF ArgoDiffPattern(command) THEN "diff"
    ELSE IF ArgoSyncPattern(command) THEN "sync"
    ELSE IF GitPushPattern(command) THEN "push"
    ELSE "other"

ListsUntouched ==
    /\ saved.validatedApps = loaded.validatedApps
    /\ saved.diffedApps = loaded.diffedApps

(***************************************************************************)
(* C1 -- kubectl commands.                                                 *)
(***************************************************************************)
\* C1 as stated: every in-repo command matching the kubectl pattern, in every
\* session state, is denied when bootstrap mode is off and answered with ask
\* when bootstrap mode is on.
C1_KubectlDenyOrAsk ==
    (InRepoCommand /\ LoadedSessionState /\ KubectlPattern(command))
        => Decision = (IF bootstrapMode THEN "ask" ELSE "deny")

\* C1 amended: every in-repo command matching the kubectl pattern is denied
\* when bootstrap mode is off; when bootstrap mode is on it is answered with
\* ask, except that the run on which loop detection fires is denied with the
\* loop-detected reason.
C1_KubectlDenyOrAskUnlessLoop ==
    (InRepoCommand /\ LoadedSessionState /\ KubectlPattern(command))
        => /\ ~bootstrapMode => Decision = "deny"
           /\ (bootstrapMode /\ ~LoopFires) =>
                 (Decision = "ask" /\ Reason = "kubectl-bootstrap")
           /\ (bootstrapMode /\ LoopFires) =>
                 (Decision = "deny" /\ Reason = "loop-detected")
           /\ (~bootstrapMode /\ ~LoopFires) => Reason = "kubectl-blocked"

\* bootstrap mode on, a kubectl command repeated for the third time: denied
C1_Witness ==
    /\ InRepoCommand /\ LoadedSessionState /\ KubectlPattern(command)
    /\ bootstrapMode /\ LoopFires
    /\ Decision = "deny"

(***************************************************************************)
(* C2 -- loop detection.                                                   *)
(***************************************************************************)
\* C2: when the command equals lastCommand the counter is incremented; when
\* the incremented counter reaches 2 the run is denied with the loop-detected
\* reason and the counter is saved as 0; when the command differs,
\* lastCommand is replaced by it and the counter is saved as 0.
C2_LoopDetection ==
    (InRepoCommand /\ LoadedSessionState)
        => /\ saveResult # "none"
           /\ IF command = loaded.lastCommand
              THEN /\ saved.lastCommand = loaded.lastCommand
                   /\ IF loaded.loopCount + 1 >= 2
                      THEN /\ Decision = "deny" /\ Reason = "loop-detected"
                           /\ saved.loopCount = 0
                      ELSE /\ saved.loopCount = loaded.loopCount + 1
                           /\ Reason # "loop-detected"
              ELSE /\ saved.lastCommand = command
                   /\ saved.loopCount = 0
                   /\ Reason # "loop-detected"

\* a command other than the last one arrives while the counter stands at 1
C2_Witness ==
    /\ InRepoCommand /\ LoadedSessionState
    /\ command # loaded.lastCommand /\ loaded.loopCount = 1
    /\ saveResult = "ok" /\ stateFile.loopCount = 0
    /\ stateFile.lastCommand = command

(***************************************************************************)
(* C3 -- priority order of the decision table.                             *)
(***************************************************************************)
\* C3: the first rule that applies, in the order loop, kubectl, helm
\* install/upgrade, helm template, argocd app diff, argocd app sync, git
\* push, else, alone fixes the decision and the side effect; a command
\* matching a blocked pattern and a render or diff pattern gets the blocked
\* rule's decision and appends nothing to either list.
C3_FirstMatchWins ==
    (InRepoCommand /\ LoadedSessionState)
        => /\ FirstRule = "loop" =>
                (Decision = "deny" /\ Reason = "loop-detected" /\ ListsUntouched)
           /\ FirstRule = "kubectl" =>
                (Reason \in {"kubectl-blocked", "kubectl-bootstrap"} /\ ListsUntouched)
           /\ FirstRule = "helm" =>
                (Reason \in {"helm-blocked", "helm-bootstrap"} /\ ListsUntouched)
           /\ FirstRule = "render" =>
                (Decision = "allow" /\ saved.diffedApps = loaded.diffedApps)
           /\ FirstRule = "diff" =>
                (Decision = "allow" /\ saved.validatedApps = loaded.validatedApps)
           /\ FirstRule = "sync" =>
                (Reason \in {"sync-without-diff", "sync-prefer-push"} /\ ListsUntouched)
           /\ FirstRule \in {"push", "other"} =>
                (Decision = "allow" /\ ListsUntouched)
           /\ ((KubectlPattern(command) \/ HelmInstallPattern(command))
               /\ (HelmTemplatePattern(command) \/ ArgoDiffPattern(command)))
                => (Decision # "allow" /\ ListsUntouched)

\* 'helm template x | kubectl apply -f -' met the kubectl rule
C3_Witness ==
    /\ InRepoCommand /\ LoadedSessionState
    /\ KubectlPattern(command) /\ HelmTemplatePattern(command)
    /\ Reason = "kubectl-blocked"
    /\ saveResult = "ok" /\ stateFile.validatedApps = prevFile.validatedApps

(***************************************************************************)
(* C4 -- manual sync.                                                      *)
(***************************************************************************)
\* C4 as stated: every in-repo command matching argocd app sync is answered
\* with ask, whether or not its target is in diffedApps.
C4_SyncAlwaysAsks ==
    (InRepoCommand /\ LoadedSessionState /\ ArgoSyncPattern(command))
        => Decision = "ask"

\* C4 amended: an in-repo argocd app sync command that no earlier rule of the
\* decision table catches (loop detection, kubectl, helm install/upgrade,
\* helm template, argocd app diff) is answered with ask whether or not its
\* target is in diffedApps, never with allow.
C4_SyncAsksUnlessCaughtEarlier ==
    (InRepoCommand /\ LoadedSessionState /\ ArgoSyncPattern(command)
       /\ FirstRule = "sync")
        => /\ Decision = "ask"
           /\ Reason = (IF Includes(loaded.diffedApps,
                                    IF MatchAfter(command, <<"argocd", "app", "sync">>) = <<>>
                                    THEN "unknown"
                                    ELSE MatchAfter(command, <<"argocd", "app", "sync">>)[1])
                        THEN "sync-prefer-push" ELSE "sync-without-diff")

\* x was rendered and then diffed; the manual sync of x is answered with ask
C4_Witness ==
    /\ InRepoCommand /\ LoadedSessionState
    /\ command = <<"argocd", "app", "sync", "x">>
    /\ Includes(loaded.validatedApps, "x") /\ Includes(loaded.diffedApps, "x")
    /\ loaded.lastCommand = <<"argocd", "app", "diff", "x">>
    /\ Decision = "ask" /\ Reason = "sync-prefer-push"

(***************************************************************************)
(* C5 -- render and diff tracking.                                         *)
(***************************************************************************)
\* C5 as stated: every in-repo command matching helm template is allowed and
\* the token after the subcommand, when there is one, is appended to
\* validatedApps; every command matching argocd app diff is allowed and its
\* target is appended to diffedApps; neither changes the other list.
C5_RenderAndDiffTracked ==
    (InRepoCommand /\ LoadedSessionState)
        => /\ HelmTemplatePattern(command) =>
                /\ Decision = "allow"
                /\ saved.validatedApps =
                      loaded.validatedApps \o MatchAfter(command, <<"helm", "template">>)
                /\ saved.diffedApps = loaded.diffedApps
           /\ (ArgoDiffPattern(command) /\ ~HelmTemplatePattern(command)) =>
                /\ Decision = "allow"
                /\ saved.diffedApps =
                      loaded.diffedApps \o MatchAfter(command, <<"argocd", "app", "diff">>)
                /\ saved.validatedApps = loaded.validatedApps

\* C5 amended: a helm template command that no earlier rule catches (loop
\* detection, kubectl, helm install/upgrade) is allowed and the token after
\* the subcommand, when there is one, is appended to validatedApps; an argocd
\* app diff command that no earlier rule catches (those and helm template) is
\* allowed and its target, when there is one, is appended to diffedApps;
\* neither changes the other list, and the saved lists are what is persisted.
C5_RenderAndDiffTrackedUnlessCaughtEarlier ==
    (InRepoCommand /\ LoadedSessionState)
        => /\ FirstRule = "render" =>
                /\ Decision = "allow" /\ stdout = <<>>
                /\ saved.validatedApps =
                      loaded.validatedApps \o MatchAfter(command, <<"helm", "template">>)
                /\ saved.diffedApps = loaded.diffedApps
           /\ FirstRule = "diff" =>
                /\ Decision = "allow" /\ stdout = <<>>
                /\ saved.diffedApps =
                      loaded.diffedApps \o MatchAfter(command, <<"argocd", "app", "diff">>)
                /\ saved.validatedApps = loaded.validatedApps
           /\ (FirstRule \in {"render", "diff"} /\ saveResult = "ok") =>
                (stateFile.validatedApps = saved.validatedApps
                 /\ stateFile.diffedApps = saved.diffedApps)
           /\ command = <<"helm", "template", "x">> /\ FirstRule = "render" =>
                saved.validatedApps = Append(loaded.validatedApps, "x")
           /\ command = <<"argocd", "app", "diff", "y">> /\ FirstRule = "diff" =>
                saved.diffedApps = Append(loaded.diffedApps, "y")
           /\ command = <<"helm", "template">> /\ FirstRule = "render" =>
                saved.validatedApps = loaded.validatedApps

\* diff of y after a diff of x: diffedApps is <<x, y>> on disk
C5_Witness ==
    /\ InRepoCommand /\ LoadedSessionState
    /\ command = <<"argocd", "app", "diff", "y">>
    /\ loaded.diffedApps = <<"x">>
    /\ Decision = "allow"
    /\ saveResult = "ok" /\ stateFile.diffedApps = <<"x", "y">>
    /\ stateFile.validatedApps = loaded.validatedApps

(***************************************************************************)
(* C6 -- every branch saves.                                               *)
(***************************************************************************)
\* C6: every branch of the command path reached inside a repo hands the
\* state, with the mutation of loop detection in it, to saveSessionState
\* before the run ends, also when it answers deny or ask; a write that
\* succeeds leaves exactly that state in the file.
C6_EveryBranchSaves ==
    (InRepoCommand /\ LoadedSessionState)
        => /\ saveResult # "none"
           /\ saved.kind = "full"
           /\ saved.lastCommand = command
           /\ saveResult = "ok" => stateFile = saved
           /\ saveResult = "failed" => stateFile = prevFile

\* a denied helm upgrade left its command in the state file
C6_Witness ==
    /\ InRepoCommand /\ LoadedSessionState
    /\ FirstRule = "helm" /\ Decision = "deny"
    /\ saveResult = "ok"
    /\ stateFile # prevFile /\ stateFile.lastCommand = command

(***************************************************************************)
(* C7 -- outside a repository.                                             *)
(***************************************************************************)
\* C7: when the working directory is in no repository every command is
\* allowed without any further check: nothing is printed, the state file is
\* neither read for a decision nor written.
C7_OutsideRepoAllowsAll ==
    (Ran /\ BashEvent /\ ~InsideRepo)
        => /\ Decision = "allow" /\ stdout = <<>>
           /\ saveResult = "none" /\ stateFile = prevFile
           /\ ~stderr /\ exitCode = <<0>>

\* outside a repo, a kubectl command that would be a loop inside one
C7_Witness ==
    /\ Ran /\ BashEvent /\ ~InsideRepo
    /\ KubectlPattern(command) /\ ~bootstrapMode
    /\ prevFile.kind = "full" /\ LoopFires
    /\ Decision = "allow"

(***************************************************************************)
(* C8 -- fail-open on malformed events.                                    *)
(***************************************************************************)
\* C8: an event that is not parseable JSON, lacks the expected shape (no
\* tool_name, no tool_input, no command) or names another tool yields allow
\* with nothing printed, and every run ends with exit code 0.
C8_FailOpenOnMalformedEvent ==
    Ran => /\ exitCode = <<0>>
           /\ hookInput.kind \in {"garbage", "null", "noTool", "otherTool",
                                  "noToolInput", "noCommand"}
                => (Decision = "allow" /\ stdout = <<>>)

(***************************************************************************)
(* C9 -- loading never fails.                                              *)
(***************************************************************************)
\* the value of TALOS_GITOPS_BOOTSTRAP the run saw, up to IsBootstrap
EnvOfRun == IF bootstrapMode THEN "true" ELSE ""

\* C9: a run that finds the state file absent, unparseable or holding a
\* JSON value that is not a SessionState (null, {}) prints what it prints
\* when the file is absent, so the decision table yields its normal decision.
C9_CorruptFileIsDefault ==
    (InRepoCommand /\ prevFile.kind \in {"absent", "garbage", "null", "empty"})
        => stdout = Run(hookInput, Disk, cwd, EnvOfRun, Blank("absent"), TRUE).stdout

(***************************************************************************)
(* C10 -- a failed write does not change the decision.                     *)
(***************************************************************************)
\* C10: when the write of the state file fails, the run prints the decision
\* it prints when the write succeeds and still ends with exit code 0.
C10_WriteFailureKeepsDecision ==
    (Ran /\ saveResult = "failed")
        => /\ stdout = Run(hookInput, Disk, cwd, EnvOfRun, prevFile, TRUE).stdout
           /\ exitCode = <<0>>
           /\ Len(stdout) <= 1

\* a loop-detected deny whose save failed
C10_Witness ==
    /\ Ran /\ saveResult = "failed" /\ stderr
    /\ Decision = "deny" /\ Reason = "loop-detected"
    /\ exitCode = <<0>>
    /\ stateFile = prevFile

CacheHit_NeverExpires == ~cachedContext.null

\* if (cachedContext && Date.now() - cacheTime < CACHE_TTL)
CacheHit == ~cachedContext.null /\ now - cacheTime < CACHE_TTL

\* the callers whose pass is between its cache check and its return
InFlight == {c \in Callers : calls[c].pc \in {"scanning", "built"}}

\* every returned context has been used by its caller.  What a call returned
\* stays observable until its caller drops it (Forget); the caller does so
\* before anything else begins: a new call, invalidateCache, a change on
\* disk, the next tick of the clock
Consumed == \A c \in Callers : calls[c].pc # "returned"

\* names of the entries of <repoRoot>/apps
DirNames == {appDirs[i].dir : i \in 1..Len(appDirs)}

\* caller c begins a call from directory dir
Started(c, dir) ==
    [IdleCall EXCEPT !.dir = dir, !.startedAt = now, !.seen = DirNames,
                     !.overlapped = InFlight \ {c}]

\* the call of caller c returns result
Return(c, call, result) ==
    /\ calls' = [calls EXCEPT ![c] = [call EXCEPT !.pc = "returned",
                                                  !.root = <<>>,
                                                  !.apps = EmptyMap,
                                                  !.nodes = <<>>,
                                                  !.result = result,
                                                  !.before = prior]]
    /\ prior' = [called |-> TRUE, result |-> result, invalidated |-> FALSE]

\* detectClusterContext up to its first await that reads the repository:
\* the cache check, then findRepoRoot
DetectStart(c) ==
    /\ Consumed
    /\ calls[c].pc = "idle"
    /\ \E dir \in WorkDirs :
        LET repoRoot == findRepoRoot(tree, dir)
        IN  IF CacheHit
            THEN Return(c, Started(c, dir), cachedContext)
            ELSE IF ~repoRoot.found
            THEN Return(c, Started(c, dir), NullContext)
            ELSE /\ nextRef + Cardinality(InFlight) <= MaxContexts
                 /\ calls' = [calls EXCEPT ![c] =
                        [Started(c, dir) EXCEPT !.pc = "scanning",
                                                !.root = repoRoot.root]]
                 /\ UNCHANGED prior
    /\ UNCHANGED <<now, cachedContext, cacheTime, nextRef>>
    /\ UNCHANGED <<hookVars, repoVars, detectVars, editVars, raceVars, loopVars, syncVars>>

\* the reads of the pass: scanNodes, then the apps scan.  Only apps entries
\* are added while the process lives, so the two reads are taken in one step
Scan(c) ==
    /\ calls[c].pc = "scanning"
    /\ calls' = [calls EXCEPT ![c].pc = "built",
                              ![c].nodes = scanNodes(clusters, 1, <<>>),
                              ![c].apps = scanApps(appDirs, 1, EmptyMap)]
    /\ UNCHANGED <<now, cachedContext, cacheTime, nextRef, prior>>
    /\ UNCHANGED <<hookVars, repoVars, detectVars, editVars, raceVars, loopVars, syncVars>>

\* after the last await: the context is constructed, stored and returned
Finish(c) ==
    /\ calls[c].pc = "built"
    /\ LET context == Context(nextRef, calls[c].root, calls[c].apps,
                              calls[c].nodes, now)
       IN  /\ cachedContext' = context
           /\ cacheTime' = now
           /\ Return(c, calls[c], context)
    /\ nextRef' = nextRef + 1
    /\ UNCHANGED now
    /\ UNCHANGED <<hookVars, repoVars, detectVars, editVars, raceVars, loopVars, syncVars>>

\* the caller has used the returned context and dropped it
Forget(c) ==
    /\ calls[c].pc = "returned"
    /\ calls' = [calls EXCEPT ![c] = IdleCall]
    /\ UNCHANGED <<now, cachedContext, cacheTime, nextRef, prior>>
    /\ UNCHANGED <<hookVars, repoVars, detectVars, editVars, raceVars, loopVars, syncVars>>

\* invalidateCache
InvalidateCache ==
    /\ Consumed
    /\ cachedContext' = NullContext
    /\ cacheTime' = 0
    /\ prior' = [prior EXCEPT !.invalidated = TRUE]
    /\ calls' = [c \in Callers |->
                    IF calls[c].pc = "idle" THEN calls[c]
                    ELSE [calls[c] EXCEPT !.invalidatedSince = TRUE,
                                          !.staleReads = calls[c].pc = "built"]]
    /\ UNCHANGED <<now, nextRef>>
    /\ UNCHANGED <<hookVars, repoVars, detectVars, editVars, raceVars, loopVars, syncVars>>

\* a new app directory, with a well-formed manifest, appears under apps/
AddAppDir ==
    /\ Consumed
    /\ Len(appDirs) < MaxEntries
    /\ Len(appDirs) < Len(AppPool)
    /\ LET dir == AppPool[Len(appDirs) + 1]
       IN  appDirs' = Append(appDirs, AppEntry(dir, "app", dir))
    /\ UNCHANGED <<tree, clusters>>
    /\ UNCHANGED <<hookVars, detectVars, cacheVars, editVars, raceVars, loopVars, syncVars>>

\* time passes
Tick ==
    /\ Consumed
    /\ now < StartTime + MaxTicks * TickMs
    /\ now' = now + TickMs
    /\ UNCHANGED <<cachedContext, cacheTime, calls, nextRef, prior>>
    /\ UNCHANGED <<hookVars, repoVars, detectVars, editVars, raceVars, loopVars, syncVars>>

CacheNext ==
    \/ \E c \in Callers : DetectStart(c) \/ Scan(c) \/ Finish(c) \/ Forget(c)
    \/ InvalidateCache
    \/ AddAppDir
    \/ Tick

\* callers whose passes may overlap one another and invalidateCache
SpecCache == Init /\ [][CacheNext]_vars

\* no pass is under way
Quiet == InFlight = {}

\* a call made when every earlier call has returned
SeqDetectStart(c) == Quiet /\ DetectStart(c)

\* invalidateCache called between two calls
SeqInvalidateCache == Quiet /\ InvalidateCache

SeqNext ==
    \/ \E c \in Callers :
          SeqDetectStart(c) \/ Scan(c) \/ Finish(c) \/ Forget(c)
    \/ SeqInvalidateCache
    \/ AddAppDir
    \/ Tick

\* the cache used by one operation after the other: every call is awaited
\* before the next call or invalidateCache
SpecCacheSeq == Init /\ [][SeqNext]_vars

(***************************************************************************)
(* C12 -- the cache round trip.                                            *)
(***************************************************************************)
\* C12: of two calls made one after the other, the first of which returned a
\* context, the second returns the same object when it begins less than
\* CACHE_TTL after that context was built and invalidateCache was not called
\* in between; otherwise a second call inside the repository returns a newly
\* built context that holds every app directory on disk when the call began.
C12_CacheRoundTrip ==
    \A c \in Callers :
        LET call == calls[c]
            first == call.before.result
        IN  (call.pc = "returned" /\ call.before.called /\ ~first.null)
                => IF /\ ~call.before.invalidated
                      /\ call.startedAt - first.builtAt < CACHE_TTL
                   THEN call.result = first
                   ELSE isGitOpsRepo(tree, call.dir)
                            => /\ ~call.result.null
                               /\ call.result.ref # first.ref
                               /\ call.result.builtAt >= call.startedAt
                               /\ call.seen \subseteq DOMAIN call.result.apps

\* a call made after the TTL of the first context has run out, with no
\* invalidateCache, returns another object that holds an app directory
\* created since
C12_Witness ==
    \E c \in Callers :
        LET call == calls[c]
            first == call.before.result
        IN  /\ call.pc = "returned" /\ call.before.called /\ ~first.null
            /\ ~call.before.invalidated
            /\ call.startedAt - first.builtAt >= CACHE_TTL
            /\ call.result.ref # first.ref
            /\ call.seen # {}
            /\ call.seen \subseteq DOMAIN call.result.apps
            /\ ~(call.seen \subseteq DOMAIN first.apps)

(***************************************************************************)
(* C13 -- concurrent callers.                                              *)
(***************************************************************************)
\* C13: two calls of which one began while the other was under way, less
\* than CACHE_TTL apart and with no invalidateCache since either began,
\* return the same context object.
C13_ConcurrentCallersShareObject ==
    \A c1, c2 \in Callers :
        (/\ calls[c1].pc = "returned" /\ calls[c2].pc = "returned"
         /\ c1 \in calls[c2].overlapped
         /\ ~calls[c1].invalidatedSince /\ ~calls[c2].invalidatedSince
         /\ calls[c2].startedAt - calls[c1].startedAt < CACHE_TTL
         /\ ~calls[c1].result.null /\ ~calls[c2].result.null)
            => calls[c1].result.ref = calls[c2].result.ref

(***************************************************************************)
(* Detection from a cold cache, on every repository layout of the bounds:  *)
(* either a tree of marker files with a start directory anywhere in it,    *)
(* or the repository of Disk with apps and patches entries of every kind.  *)
(***************************************************************************)
\* the files that make a directory a repo root: /apps, /srv/omniconfig.yaml,
\* /srv/gitops/.talos-gitops-ops, /srv/gitops/apps, /home/apps
MarkerSpots ==
    { <<"apps">>, <<"srv", "omniconfig.yaml">>,
      <<"srv", "gitops", ".talos-gitops-ops">>, <<"srv", "gitops", "apps">>,
      <<"home", "apps">> }

Trees ==
    { {<<"srv">>, <<"srv", "gitops">>, <<"home">>, <<"home", "dev">>} \cup m :
        m \in SUBSET MarkerSpots }

\* /, /srv, /srv/gitops, /srv/gitops/apps/web, /home/dev
StartDirs ==
    { <<>>, <<"srv">>, <<"srv", "gitops">>,
      <<"srv", "gitops", "apps", "web">>, <<"home", "dev">> }

\* what the i-th entry of apps/ may be
EntryChoices(i) ==
    {AppEntry(AppPool[i], "app", n) : n \in {AppPool[i], "frontend"}}
    \cup {AppEntry(AppPool[i], k, "") :
            k \in {"file", "statFails", "listFails", "noManifest", "malformed"}}

AppLayouts ==
    UNION { {s \in [1..n -> UNION {EntryChoices(i) : i \in 1..n}] :
                \A i \in 1..n : s[i] \in EntryChoices(i)} :
            n \in {m \in 0..MaxEntries : m <= Len(AppPool)} }

\* what the i-th file of a patches directory may be
PatchChoices(i) ==
    {PatchEntry(PatchPool[i], k) : k \in {"node", "noIp", "notYaml", "unreadable"}}

PatchLayouts ==
    UNION { {s \in [1..n -> UNION {PatchChoices(i) : i \in 1..n}] :
                \A i \in 1..n : s[i] \in PatchChoices(i)} :
            n \in {m \in 0..MaxPatches : m <= Len(PatchPool)} }

\* no clusters directory, or one cluster with a patches directory
ClusterLayouts == {<<>>} \cup {<<p>> : p \in PatchLayouts}

DetectInit ==
    /\ HookAtRest
    /\ CacheAtRest
    /\ EditAtRest
    /\ RaceAtRest
    /\ LoopAtRest
    /\ SyncAtRest
    /\ detected = NotDetected
    /\ foundRoot = NotSearched
    /\ \/ /\ tree \in Trees
          /\ startDir \in StartDirs
          /\ appDirs = <<>>
          /\ clusters = <<>>
       \/ /\ tree = Disk
          /\ startDir \in WorkDirs
          /\ appDirs \in AppLayouts
          /\ clusters \in ClusterLayouts

\* findRepoRoot(startDir)
FindRepoRoot ==
    /\ ~foundRoot.done
    /\ foundRoot' = [done |-> TRUE, result |-> findRepoRoot(tree, startDir)]
    /\ UNCHANGED <<startDir, detected>>
    /\ UNCHANGED <<hookVars, repoVars, cacheVars, editVars, raceVars, loopVars, syncVars>>

\* detectClusterContext(startDir) with nothing cached
DetectOnce ==
    /\ ~detected.done
    /\ detected' = [done |-> TRUE,
                    context |-> detectClusterContext(tree, startDir, appDirs,
                                                     clusters, nextRef, now)]
    /\ UNCHANGED <<startDir, foundRoot>>
    /\ UNCHANGED <<hookVars, repoVars, cacheVars, editVars, raceVars, loopVars, syncVars>>

DetectNext == FindRepoRoot \/ DetectOnce

SpecDetect == DetectInit /\ [][DetectNext]_vars

(***************************************************************************)
(* C14 -- keys of the apps map.                                            *)
(***************************************************************************)
\* C14: in every context detection returns, each key of the apps map is the
\* name of the AppDefinition stored under it.
C14_AppKeysMatchNames ==
    (detected.done /\ ~detected.context.null)
        => \A key \in DOMAIN detected.context.apps :
              detected.context.apps[key].name = key

(***************************************************************************)
(* C15 -- partial failures.                                                *)
(***************************************************************************)
\* C15: a detection that starts inside a repository returns a context, and
\* that context holds every app directory whose manifest is well-formed and
\* the node of every readable patch file that names one, whatever the other
\* entries are.
C15_PartialFailureTolerance ==
    (detected.done /\ isGitOpsRepo(tree, startDir))
        => /\ ~detected.context.null
           /\ \A i \in 1..Len(appDirs) :
                 appDirs[i].kind = "app"
                    => appDirs[i].dir \in DOMAIN detected.context.apps
           /\ \A c \in 1..Len(clusters) : \A j \in 1..Len(clusters[c]) :
                 clusters[c][j].kind = "node"
                    => \E n \in 1..Len(detected.context.nodes) :
                          detected.context.nodes[n] = clusters[c][j].node

(***************************************************************************)
(* C16 -- root discovery.                                                  *)
(***************************************************************************)
\* the directories of the upward walk from the start directory, the
\* filesystem root (the empty path) included
Walk == {SubSeq(startDir, 1, k) : k \in 0..Len(startDir)}

\* the directory holds one of the markers
HoldsMarker(dir) == \E i \in 1..Len(Markers) : Append(dir, Markers[i]) \in tree

\* C16: findRepoRoot returns the first directory of the upward walk from the
\* start directory, the start directory and the filesystem root included,
\* that holds a marker, and notFound exactly when no directory of the walk
\* holds one.
C16_RootDiscovery ==
    foundRoot.done
        => IF \E dir \in Walk : HoldsMarker(dir)
           THEN /\ foundRoot.result.found
                /\ foundRoot.result.root \in Walk
                /\ HoldsMarker(foundRoot.result.root)
                /\ \A dir \in Walk :
                      HoldsMarker(dir) => Len(dir) <= Len(foundRoot.result.root)
           ELSE ~foundRoot.result.found

(***************************************************************************)
(* The edit hook as a state machine: one hook process per event; between   *)
(* two runs the remote side and the values file on disk change.            *)
(***************************************************************************)
OciGood == <<"oci://", "ghcr.io", "/", "org/charts">>

\* an OCI location without its path segment
OciNoPath == <<"oci://", "ghcr.io">>

HelmRepo == <<"https://", "charts.example.com">>

GitSsh == <<"git@", "github.com:org/repo.git">>

Source(repoURL, chart, targetRevision) ==
    [null |-> FALSE, repoURL |-> repoURL, chart |-> chart,
     targetRevision |-> targetRevision]

\* a list item that is the YAML null
NullSource == [null |-> TRUE, repoURL |-> <<>>, chart |-> "", targetRevision |-> ""]

SourceChoices ==
    { Source(OciGood, "app", "1.0.0"), Source(OciNoPath, "app", "1.0.0"),
      Source(HelmRepo, "harbor", "1.0.0"), Source(HelmRepo, "app", "9.9.9"),
      Source(GitSsh, "", "HEAD"), NullSource }

SourceLists == UNION {[1..n -> SourceChoices] : n \in 0..MaxSources}

LineChoices ==
    {"master:", "hostNetwork: true", "strategy: Recreate", "replicas: 1"}

LineLists == UNION {[1..n -> LineChoices] : n \in 0..MaxLines}

Contents ==
    {[yaml |-> "application", sources |-> s, ignoreDifferences |-> b,
      lines |-> <<>>] : s \in SourceLists, b \in BOOLEAN}
    \cup {[yaml |-> "other", sources |-> <<>>, ignoreDifferences |-> FALSE,
           lines |-> l] : l \in LineLists}
    \cup {[yaml |-> "invalid", sources |-> <<>>, ignoreDifferences |-> FALSE,
           lines |-> <<"master:">>],
          NoContent}

\* apps/web/application.yaml, apps/web/values.yaml,
\* apps/applications/web/values.yml, apps/web/config.yaml, README.md, ""
FilePaths ==
    { <<"apps/web/", "application", ".yaml">>,
      <<"apps/web/", "values", ".yaml">>,
      <<"apps/", "application", "s/web/", "values", ".yml">>,
      <<"apps/web/config", ".yaml">>,
      <<"README", ".md">>,
      <<>> }

EditInputs ==
    {EditEvent(k, "", <<>>, NoContent) : k \in {"garbage", "null"}}
    \cup {EditEvent("noToolInput", t, <<>>, NoContent) : t \in {"Bash", "Edit"}}
    \cup {EditEvent("tool", "Bash", <<>>, NoContent)}
    \cup {EditEvent("tool", t, p, c) :
            t \in {"Edit", "Write"}, p \in FilePaths, c \in Contents}

RemoteStates ==
    {[host |-> "down", index |-> "missing", base |-> "missing"]}
    \cup {[host |-> "up", index |-> i, base |-> b] :
            i \in {"served", "missing"}, b \in {"ok", "missing"}}

\* the values file on disk: absent, without findings, or with a tolerations
\* list lacking the control-plane toleration and master: on line 2
ValuesFiles ==
    { NoFile,
      [readable |-> TRUE, lines |-> <<"replicas: 1">>, tolerations |-> <<>>],
      [readable |-> TRUE, lines |-> <<"replicas: 1", "master:">>,
       tolerations |-> <<"controller.tolerations">>] }

\* one run of the validate-yaml hook on one event
ValidateYaml ==
    /\ ~editRun.done
    /\ \E input \in EditInputs, dir \in WorkDirs :
        /\ editInput' = input
        /\ editDir' = dir
        /\ editRun' = validateYamlMain(input, Disk, dir, editEnv.remote,
                                       editEnv.file)
    /\ UNCHANGED <<editEnv, editAgain>>
    /\ UNCHANGED <<hookVars, repoVars, detectVars, cacheVars, raceVars, loopVars, syncVars>>

\* the hook process has exited
EditDone ==
    /\ editRun.done
    /\ editInput' = EditEvent("none", "", <<>>, NoContent)
    /\ editDir' = <<>>
    /\ editRun' = NotRun
    /\ editAgain' = NotRun
    /\ UNCHANGED editEnv
    /\ UNCHANGED <<hookVars, repoVars, detectVars, cacheVars, raceVars, loopVars, syncVars>>

\* the hook runs once more on the same event, in the same directory, with
\* the values file and the remote side as the first run found them
ValidateYamlAgain ==
    /\ editRun.done
    /\ ~editAgain.done
    /\ editAgain' = validateYamlMain(editInput, Disk, editDir, editEnv.remote,
                                     editEnv.file)
    /\ UNCHANGED <<editInput, editDir, editEnv, editRun>>
    /\ UNCHANGED <<hookVars, repoVars, detectVars, cacheVars, raceVars, loopVars, syncVars>>

\* between two runs the chart repository goes down, comes up, changes what
\* it serves
RemoteChanges ==
    /\ ~editRun.done
    /\ \E r \in RemoteStates \ {editEnv.remote} :
          editEnv' = [editEnv EXCEPT !.remote = r]
    /\ UNCHANGED <<editInput, editDir, editRun, editAgain>>
    /\ UNCHANGED <<hookVars, repoVars, detectVars, cacheVars, raceVars, loopVars, syncVars>>

\* between two runs the values file on disk is written or removed
ValuesFileChanges ==
    /\ ~editRun.done
    /\ \E f \in ValuesFiles \ {editEnv.file} :
          editEnv' = [editEnv EXCEPT !.file = f]
    /\ UNCHANGED <<editInput, editDir, editRun, editAgain>>
    /\ UNCHANGED <<hookVars, repoVars, detectVars, cacheVars, raceVars, loopVars, syncVars>>

EditNext ==
    \/ ValidateYaml
    \/ ValidateYamlAgain
    \/ EditDone
    \/ RemoteChanges
    \/ ValuesFileChanges

SpecEdit == Init /\ [][EditNext]_vars

(***************************************************************************)
(* What the properties of the edit hook speak about.                       *)
(***************************************************************************)
\* the working directory of the edit run lies in a repository
EditInsideRepo ==
    \E k \in 1..Len(editDir) : \E i \in 1..Len(Markers) :
        Append(SubSeq(editDir, 1, k), Markers[i]) \in Disk

\* an Edit or Write event for a YAML-suffixed file, handled inside a repo
YamlEdit ==
    /\ editRun.done
    /\ editInput.kind = "tool" /\ editInput.tool \in {"Edit", "Write"}
    /\ editInput.path # <<>>
    /\ editInput.path[Len(editInput.path)] \in {".yaml", ".yml"}
    /\ EditInsideRepo

\* no printed decision means allow
EditDecision ==
    IF editRun.stdout = <<>> THEN "allow" ELSE editRun.stdout[1].decision

\* the collected entries of one severity, in collected order
Entries(severity) ==
    SelectSeq(editRun.collected, LAMBDA e : e.severity = severity)

\* file[:line]: message [Fix: fix]
EntryText(e, withFix) ==
    LET loc == IF e.line = 0 THEN <<>> ELSE <<":", ToString(e.line)>>
        fix == IF withFix /\ e.fix # <<>> THEN <<" Fix: ">> \o e.fix ELSE <<>>
    IN  e.file \o loc \o <<": ">> \o e.message \o fix

(***************************************************************************)
(* C17 -- aggregation of the collected entries.                            *)
(***************************************************************************)
\* C17: a run that reaches outputErrors prints deny when an entry of
\* severity error was collected, its reason listing the error entries in
\* collected order as file[:line]: message [Fix: fix]; otherwise it prints
\* ask when a warning was collected, listing the warnings without fix text;
\* otherwise it prints nothing.
C17_Aggregation ==
    (editRun.done /\ editRun.aggregated)
        => IF Entries("error") # <<>>
           THEN /\ Len(editRun.stdout) = 1
                /\ EditDecision = "deny"
                /\ editRun.stdout[1].lines =
                      [i \in 1..Len(Entries("error")) |->
                          EntryText(Entries("error")[i], TRUE)]
           ELSE IF Entries("warning") # <<>>
           THEN /\ Len(editRun.stdout) = 1
                /\ EditDecision = "ask"
                /\ editRun.stdout[1].lines =
                      [i \in 1..Len(Entries("warning")) |->
                          EntryText(Entries("warning")[i], FALSE)]
           ELSE editRun.stdout = <<>>

\* warnings only, one of them with a line number and each with a fix: ask,
\* and no fix text in the reason
C17_Witness ==
    /\ editRun.done /\ editRun.aggregated
    /\ Entries("error") = <<>>
    /\ Len(Entries("warning")) >= 2
    /\ \E i \in 1..Len(Entries("warning")) : Entries("warning")[i].line # 0
    /\ \A i \in 1..Len(Entries("warning")) : Entries("warning")[i].fix # <<>>
    /\ EditDecision = "ask"

(***************************************************************************)
(* C18 -- content that is not YAML.                                        *)
(***************************************************************************)
\* C18: a YAML-suffixed edit inside a repo whose content fails to parse
\* collects the single error Invalid YAML, is denied, and runs no
\* application check, no values check and no remote request.
C18_InvalidYamlDenies ==
    (YamlEdit /\ editInput.content.yaml = "invalid")
        => /\ Len(editRun.collected) = 1
           /\ editRun.collected[1].severity = "error"
           /\ editRun.collected[1].file = editInput.path
           /\ editRun.collected[1].message[1] = "Invalid YAML: "
           /\ EditDecision = "deny"
           /\ editRun.checks = {}
           /\ editRun.probes = <<>>

\* unparseable content written to a values file
C18_Witness ==
    /\ YamlEdit /\ editInput.content.yaml = "invalid"
    /\ \E i \in 1..Len(editInput.path) : editInput.path[i] = "values"
    /\ editEnv.file.readable
    /\ EditDecision = "deny"
    /\ Len(editRun.collected) = 1

(***************************************************************************)
(* C19 -- remote probes that fail.                                         *)
(***************************************************************************)
\* the run's event would collect no error were every remote side reachable
OnlyProblemIsReachability ==
    \A i \in 1..Len(validateYamlMain(editInput, Disk, editDir, AllUp,
                                     editEnv.file).collected) :
        validateYamlMain(editInput, Disk, editDir, AllUp,
                         editEnv.file).collected[i].severity # "error"

\* C19: an Application edit whose only problem is that the remote side
\* cannot be reached (timeout, network error) collects warnings at most and
\* is not denied.
C19_NetworkFailureNeverDenies ==
    (/\ YamlEdit /\ editInput.content.yaml = "application"
     /\ editEnv.remote.host = "down"
     /\ OnlyProblemIsReachability)
        => /\ Entries("error") = <<>>
           /\ EditDecision # "deny"

(***************************************************************************)
(* C20 -- OCI sources.                                                     *)
(***************************************************************************)
\* the sources of the edited manifest
sources == editInput.content.sources

\* C20: an Application manifest all of whose sources are oci:// locations
\* collects one error for each source that does not match
\* oci://registry/path, no other error, and sends no remote request.
C20_OciSources ==
    (/\ YamlEdit /\ editInput.content.yaml = "application"
     /\ \E i \in 1..Len(editInput.path) : editInput.path[i] = "application"
     /\ \A i \in 1..Len(sources) :
           ~sources[i].null /\ StartsWith(sources[i].repoURL, "oci://"))
        => /\ Len(Entries("error"))
                = Cardinality({i \in 1..Len(sources) : ~OciPattern(sources[i].repoURL)})
           /\ \A i \in 1..Len(Entries("error")) :
                 Entries("error")[i].message[1] = "Malformed OCI URL: "
           /\ editRun.probes = <<>>

\* a malformed and a well-formed OCI source, the remote side down: one
\* error, no request
C20_Witness ==
    /\ YamlEdit /\ editInput.content.yaml = "application"
    /\ \E i \in 1..Len(editInput.path) : editInput.path[i] = "application"
    /\ sources = <<Source(OciNoPath, "app", "1.0.0"), Source(OciGood, "app", "1.0.0")>>
    /\ editEnv.remote.host = "down"
    /\ Len(Entries("error")) = 1
    /\ editRun.probes = <<>>

(***************************************************************************)
(* C21 -- the values checks and the edited content.                        *)
(***************************************************************************)
\* the run reached the values checks: a parseable edit of a file whose path
\* holds "values"
ValuesEdit ==
    /\ YamlEdit /\ editInput.content.yaml # "invalid"
    /\ \E i \in 1..Len(editInput.path) : editInput.path[i] = "values"

\* the collected warnings that recommend primary: for line n
MasterWarnings(n) ==
    {i \in 1..Len(editRun.collected) :
        /\ editRun.collected[i].severity = "warning"
        /\ editRun.collected[i].line = n
        /\ editRun.collected[i].message
              = <<"Bitnami charts use 'primary:' not 'master:'">>}

\* C21: a values edit whose incoming content has master: on line n collects
\* one warning with line n that recommends primary:, whatever the file holds
\* on disk.
C21_ValuesChecksReadContent ==
    ValuesEdit
        => \A n \in 1..Len(editInput.content.lines) :
              editInput.content.lines[n] = "master:"
                  => Cardinality(MasterWarnings(n)) = 1

(***************************************************************************)
(* C22 -- validation is idempotent and ordered by source.                  *)
(***************************************************************************)
\* the entry is an ignoreDifferences warning
IsIgnoreWarning(e) ==
    /\ e.severity = "warning"
    /\ e.fix = <<"Add ignoreDifferences for secrets that change on each helm render">>

\* what the manifest collects when the i-th declared source is its only one
AloneCollected(i) ==
    validateApplicationYaml(editEnv.remote,
                            [editInput.content EXCEPT !.sources = <<editInput.content.sources[i]>>],
                            editInput.path).errors

\* the entries the sources collect alone, taken source by source from the
\* i-th on: the ignoreDifferences warnings, or all the other entries
RECURSIVE BySourceFrom(_, _)
BySourceFrom(i, ignoreWarnings) ==
    IF i > Len(editInput.content.sources) THEN <<>>
    ELSE SelectSeq(AloneCollected(i),
                   LAMBDA e : IsIgnoreWarning(e) = ignoreWarnings)
         \o BySourceFrom(i + 1, ignoreWarnings)

\* an Application manifest, its sources all objects, edited at a path that
\* holds "application" and not "values"
ApplicationEdit ==
    /\ YamlEdit /\ editInput.content.yaml = "application"
    /\ \E i \in 1..Len(editInput.path) : editInput.path[i] = "application"
    /\ \A i \in 1..Len(editInput.path) : editInput.path[i] # "values"
    /\ \A i \in 1..Len(editInput.content.sources) :
          ~editInput.content.sources[i].null

RaceCommands == {
    <<"argocd", "app", "diff", "x">>,
    <<"argocd", "app", "diff", "y">>,
    <<"helm", "template", "x">>,
    <<"ls">> }

RaceInputs ==
    {Event("noCommand", <<>>)} \cup {Event("bash", c) : c \in RaceCommands}

RaceDir == <<"srv", "gitops", "apps", "web">>

\* the names the lists of a saved state hold, by list
NamesOf(state) ==
    {<<"validatedApps", state.validatedApps[k]>> : k \in 1..Len(state.validatedApps)}
    \cup {<<"diffedApps", state.diffedApps[k]>> : k \in 1..Len(state.diffedApps)}

\* a process reads its event, finds itself in the repository and loads the
\* state file
LoadState(i) ==
    /\ racers[i].pc = "idle"
    /\ invocations < MaxInvocations
    /\ isGitOpsRepo(Disk, RaceDir)
    /\ \E input \in RaceInputs :
          racers' = [racers EXCEPT ![i] = [pc |-> "loaded", input |-> input,
                                          file |-> stateFile]]
    /\ invocations' = invocations + 1
    /\ UNCHANGED <<lastWrite, recorded>>
    /\ UNCHANGED <<hookVars, repoVars, detectVars, cacheVars, editVars, loopVars, syncVars>>

\* a process that loads the state file again when it is about to save
SaveState_Reloading(i) ==
    /\ racers[i].pc = "loaded"
    /\ \E env \in EnvValues, writeOk \in BOOLEAN :
        LET run == Run(racers[i].input, Disk, RaceDir, env, stateFile, writeOk)
            wrote == run.saveResult = "ok"
        IN  /\ stateFile' = IF wrote THEN run.file ELSE stateFile
            /\ lastWrite' = IF wrote
                            THEN [by |-> i, input |-> racers[i].input,
                                  file |-> racers[i].file, saved |-> run.saved]
                            ELSE lastWrite
            /\ recorded' = IF wrote THEN recorded \cup NamesOf(run.saved)
                           ELSE recorded
    /\ prevFile' = stateFile'
    /\ racers' = [racers EXCEPT ![i] = NotInvoked]
    /\ UNCHANGED <<hookInput, cwd, bootstrapMode, bootstrapEnv, stdout, stderr,
                   exitCode, saveResult, saved, invocations>>
    /\ UNCHANGED <<repoVars, detectVars, cacheVars, editVars, loopVars, syncVars>>

\* the process decides on the state it loaded, writes that state back and
\* exits.  The bootstrap variable bears on the printed decision only.
SaveState(i) ==
    /\ racers[i].pc = "loaded"
    /\ \E env \in EnvValues, writeOk \in BOOLEAN :
        LET run == Run(racers[i].input, Disk, RaceDir, env, racers[i].file, writeOk)
            wrote == run.saveResult = "ok"
        IN  /\ stateFile' = IF wrote THEN run.file ELSE stateFile
            /\ lastWrite' = IF wrote
                            THEN [by |-> i, input |-> racers[i].input,
                                  file |-> racers[i].file, saved |-> run.saved]
                            ELSE lastWrite
            /\ recorded' = IF wrote THEN recorded \cup NamesOf(run.saved)
                           ELSE recorded
    /\ prevFile' = stateFile'
    /\ racers' = [racers EXCEPT ![i] = NotInvoked]
    /\ UNCHANGED <<hookInput, cwd, bootstrapMode, bootstrapEnv, stdout, stderr,
                   exitCode, saveResult, saved, invocations>>
    /\ UNCHANGED <<repoVars, detectVars, cacheVars, editVars, loopVars, syncVars>>

RaceNext == \E i \in Invokers : LoadState(i) \/ SaveState(i)

SpecRace == Init /\ [][RaceNext]_vars

(***************************************************************************)
(* C23 -- overlapping invocations and the state file.                      *)
(***************************************************************************)
\* no hook process is between its load and its save
NoneInFlight == \A i \in Invokers : racers[i].pc = "idle"

\* C23: the state file holds exactly the state the process that wrote last
\* made of the file it had loaded itself: what another process saved between
\* that load and that write is gone (two allowed diffs of x and y can leave
\* one name in diffedApps).
C23_LastWriterWins ==
    lastWrite.by # "none"
        => /\ stateFile = saveSessionState(lastWrite.saved)
           /\ stateFile = Run(lastWrite.input, Disk, RaceDir, "", lastWrite.file,
                              TRUE).file

\* the diffs of x and of y were both allowed and saved, and the file names
\* one of them only
C23_Witness ==
    /\ NoneInFlight
    /\ {<<"diffedApps", "x">>, <<"diffedApps", "y">>} \subseteq recorded
    /\ Len(stateFile.diffedApps) = 1

(***************************************************************************)
(* C24 -- the two lists only grow.                                         *)
(***************************************************************************)
\* the list begins with the entries of the earlier list, in their order
Extends(list, earlier) ==
    /\ Len(earlier) <= Len(list)
    /\ SubSeq(list, 1, Len(earlier)) = earlier

\* what the next invocation loads
found == loadSessionState(stateFile)

\* C24: whatever the event, the directory and the outcome of the write, the
\* lists the next invocation loads begin with the lists this invocation
\* loaded, entry for entry: nothing is removed or reordered, and a name the
\* diff rule recorded is found by every later invocation.
C24_ListsAppendOnly ==
    (Ran /\ LoadedSessionState)
        => /\ found.kind = "full"
           /\ Extends(found.validatedApps, loaded.validatedApps)
           /\ Extends(found.diffedApps, loaded.diffedApps)
           /\ \A i \in 1..Len(loaded.diffedApps) :
                 Includes(found.diffedApps, loaded.diffedApps[i])

\* an invocation that loaded diffedApps = [x] and validatedApps = [] renders
\* x and leaves validatedApps = [x] behind x still diffed
C24_Witness ==
    /\ InRepoCommand /\ saveResult = "ok"
    /\ loaded.diffedApps = <<"x">> /\ loaded.validatedApps = <<>>
    /\ found.diffedApps = <<"x">> /\ found.validatedApps = <<"x">>

(***************************************************************************)
(* C25 -- invalidateCache and a pass under way.                            *)
(***************************************************************************)
\* C25: when invalidateCache was called after a pass had read the
\* repository and before it completed, the cache does not hold the context
\* of that pass once it has completed.
C25_InvalidationBeatsInFlightPass ==
    \A c \in Callers :
        (calls[c].pc = "returned" /\ calls[c].staleReads)
            => \/ cachedContext.null
               \/ cachedContext.ref # calls[c].result.ref

(***************************************************************************)
(* C26 -- the persisted loop counter.                                      *)
(***************************************************************************)
\* C26: from a state file that is absent, every state the hook hands to
\* saveSessionState, and every state file that holds a loop counter, has
\* loopCount 0 or 1.
C26_LoopCountBelowThreshold ==
    /\ HasScalars(stateFile) => stateFile.loopCount \in {0, 1}
    /\ (Ran /\ saveResult # "none") => saved.loopCount \in {0, 1}

\* the run that raised the counter from 1 to the threshold wrote 0
C26_Witness ==
    /\ InRepoCommand /\ saveResult = "ok"
    /\ Reason = "loop-detected"
    /\ loaded.loopCount = 1
    /\ stateFile.loopCount = 0

(***************************************************************************)
(* A session of the command hook with the commands it processed kept:      *)
(* hook processes run one after the other from the default session state,  *)
(* and history lists the commands of the Bash events handled inside the    *)
(* repository, oldest first.                                               *)
(***************************************************************************)
LoopInputs ==
    { Event("noCommand", <<>>), Event("otherTool", <<>>),
      Event("bash", <<"ls">>), Event("bash", <<"git", "push">>) }

\* one run of the validate-command hook, its command noted
ProcessCommand ==
    /\ exitCode = <<>>
    /\ Len(history) < MaxHistory
    /\ \E input \in LoopInputs, dir \in WorkDirs, env \in EnvValues, writeOk \in BOOLEAN :
        LET run == Run(input, Disk, dir, env, stateFile, writeOk)
        IN  /\ hookInput' = input
            /\ cwd' = dir
            /\ bootstrapMode' = IsBootstrap(env)
            /\ bootstrapEnv' = env
            /\ prevFile' = stateFile
            /\ stateFile' = run.file
            /\ stdout' = run.stdout
            /\ stderr' = run.stderr
            /\ exitCode' = run.exitCode
            /\ saveResult' = run.saveResult
            /\ saved' = run.saved
            /\ history' = IF /\ input.kind \in {"bash", "noCommand"}
                             /\ isGitOpsRepo(Disk, dir)
                          THEN Append(history, CommandOf(input))
                          ELSE history
    /\ UNCHANGED <<repoVars, detectVars, cacheVars, editVars, raceVars, syncVars>>

LoopNext == ProcessCommand \/ HookDone

SpecLoop == Init /\ [][LoopNext]_vars

(***************************************************************************)
(* C27 -- the loop rule needs three occurrences.                           *)
(***************************************************************************)
\* C27: from the default session state, a run is denied as a loop only when
\* its command, the empty command included, is also the command of the two
\* in-repo runs just before it.
C27_LoopDenyOnlyOnThirdRepeat ==
    (Ran /\ Reason = "loop-detected")
        => /\ Len(history) >= 3
           /\ \A k \in 0..2 : history[Len(history) - k] = command

(***************************************************************************)
(* C28 -- what a loop deny leaves in the session state.                    *)
(***************************************************************************)
\* C28: a run denied as a loop hands to saveSessionState the state it
\* loaded with loopCount set to 0: lastCommand and the two lists are as
\* loaded, also when the command is a render or a diff, and a successful
\* write leaves exactly that in the file.
C28_LoopDenyFrame ==
    (Ran /\ Reason = "loop-detected")
        => /\ saveResult # "none"
           /\ saved = [loaded EXCEPT !.loopCount = 0]
           /\ saved.lastCommand = loaded.lastCommand
           /\ ListsUntouched
           /\ saveResult = "ok" => stateFile = saveSessionState(saved)
           /\ saveResult = "failed" => stateFile = prevFile

\* the third diff of y in a row is denied and diffedApps stays [y, y]
C28_Witness ==
    /\ InRepoCommand /\ Reason = "loop-detected" /\ saveResult = "ok"
    /\ command = <<"argocd", "app", "diff", "y">>
    /\ loaded.diffedApps = <<"y", "y">>
    /\ stateFile.diffedApps = <<"y", "y">>
    /\ stateFile.loopCount = 0 /\ loaded.loopCount = 1

(***************************************************************************)
(* C29 -- events that do not reach the session state.                      *)
(***************************************************************************)
\* the event is unparseable, or names no tool or a tool other than Bash
NotForBash == hookInput.kind \in {"garbage", "noTool", "otherTool"}

\* C29: a run on an unparseable event, on an event of another tool, or on
\* a Bash event in a directory where no repository is detected never calls
\* saveSessionState: the file is as before, absent if it was absent, and
\* with it lastCommand and loopCount.
C29_UntrackedEventsLeaveFile ==
    (Ran /\ (NotForBash \/ (BashEvent /\ ~isGitOpsRepo(Disk, cwd))))
        => /\ saveResult = "none"
           /\ stateFile = prevFile
           /\ stdout = <<>>

\* outside a repository, the command the file holds as lastCommand with
\* loopCount 1 comes once more, and the file stays as it is
C29_Witness ==
    /\ Ran /\ hookInput.kind = "bash" /\ ~isGitOpsRepo(Disk, cwd)
    /\ prevFile.kind = "full"
    /\ prevFile.loopCount = 1
    /\ command = prevFile.lastCommand
    /\ stateFile = prevFile

(***************************************************************************)
(* The post-tool sync watcher.  One process per event; once triggered it   *)
(* polls argocd app list until a poll decides, a poll fails, or the loop   *)
(* head finds SYNC_TIMEOUT_MS elapsed.  watch.clock is Date.now(); the     *)
(* exec of a poll answers at once or is cut off after                      *)
(* ExecTimeoutMs, sleep takes POLL_INTERVAL_MS.  watch.reports lists the   *)
(* outcomes written to stderr, watch.polled is the result of the latest    *)
(* poll, and polls and pending count the polls made and those after which  *)
(* the loop went on.                                                       *)
(***************************************************************************)
\* one entry of getArgoCDStatus
SyncStatus(app, syncStatus, healthStatus) ==
    [app |-> app, syncStatus |-> syncStatus, healthStatus |-> healthStatus]

\* status.filter(s => s.syncStatus === "Failed" || s.healthStatus === "Degraded")
failed(status) ==
    SelectSeq(status, LAMBDA st : st.syncStatus = "Failed" \/ st.healthStatus = "Degraded")

\* status.filter(s => s.syncStatus === "Syncing")
syncing(status) == SelectSeq(status, LAMBDA st : st.syncStatus = "Syncing")

\* status.filter(s => s.syncStatus === "OutOfSync")
outOfSync(status) == SelectSeq(status, LAMBDA st : st.syncStatus = "OutOfSync")

\* lastStatus.filter(s => s.syncStatus !== "Synced" || s.healthStatus !== "Healthy")
pendingApps(status) ==
    SelectSeq(status, LAMBDA st : st.syncStatus # "Synced" \/ st.healthStatus # "Healthy")

\* what a poll yields: the exec or JSON.parse throws, or a status list
PollResult(error, status) == [error |-> error, status |-> status]

\* the body of the loop testing completion before failure
PollOutcome_CompleteFirst(result) ==
    IF result.error THEN "error"
    ELSE IF syncing(result.status) = <<>> /\ outOfSync(result.status) = <<>>
    THEN "Complete"
    ELSE IF failed(result.status) # <<>> THEN "FAILED"
    ELSE "pending"

\* the body of the while loop: what one poll leads to
PollOutcome(result) ==
    IF result.error THEN "error"
    ELSE IF failed(result.status) # <<>> THEN "FAILED"
    ELSE IF syncing(result.status) = <<>> /\ outOfSync(result.status) = <<>>
    THEN "Complete"
    ELSE "pending"

SyncStates == {"Synced", "Syncing", "OutOfSync", "Failed"}

HealthStates == {"Healthy", "Degraded"}

SyncAppNames == <<"web", "db", "cache">>

StatusLists ==
    UNION { { [i \in 1..n |-> SyncStatus(SyncAppNames[i], c[i][1], c[i][2])] :
                c \in [1..n -> SyncStates \X HealthStates] } :
            n \in 0..MaxSyncApps }

PollResults ==
    {PollResult(TRUE, <<>>)} \cup {PollResult(FALSE, st) : st \in StatusLists}

SyncInputs ==
    {Event(k, <<>>) : k \in {"garbage", "null", "otherTool", "noToolInput",
                             "noCommand"}}
    \cup {Event("bash", <<"git", "push">>), Event("bash", <<"ls">>)}

\* the event makes the watcher wait for the sync: a Bash event with a git
\* push, handled inside a repository
Triggers(input, dir) ==
    /\ input.kind \in {"bash", "noCommand"}
    /\ GitPushPattern(CommandOf(input))
    /\ isGitOpsRepo(Disk, dir)

\* process.exit(0)
WatchExit(w) ==
    [w EXCEPT !.pc = "exited", !.exitCode = <<ExitSuccess>>, !.lastStatus = <<>>]

WatchReport(w, outcome, apps) ==
    [w EXCEPT !.reports = Append(@, [outcome |-> outcome, apps |-> apps])]

\* main up to the loop: every event that does not trigger exits at once,
\* an event that makes main throw through main().catch
WatchStart ==
    /\ watch.pc = "idle"
    /\ \E input \in SyncInputs, dir \in WorkDirs :
        LET began == [watch EXCEPT !.input = input, !.dir = dir]
        IN  watch' = IF Triggers(input, dir)
                     THEN [began EXCEPT !.pc = "loop", !.startTime = watch.clock]
                     ELSE WatchExit(began)
    /\ UNCHANGED <<hookVars, repoVars, detectVars, cacheVars, editVars,
                   raceVars, loopVars>>

\* the rest of the loop body, once the poll has settled with result
Handle(w, result, took) ==
    LET outcome == PollOutcome(result)
        polled == [w EXCEPT !.clock = @ + took, !.polls = @ + 1,
                            !.polled = <<result>>, !.sincePoll = 0]
    IN  IF outcome = "pending"
        THEN [polled EXCEPT !.pc = "sleeping", !.pending = @ + 1,
                            !.lastStatus = result.status]
        ELSE WatchExit(WatchReport(polled, outcome,
                                   IF outcome = "FAILED"
                                   THEN failed(result.status) ELSE <<>>))

\* the loop condition holds: getArgoCDStatus starts the exec
WatchPoll ==
    /\ watch.pc = "loop"
    /\ watch.clock - watch.startTime < SYNC_TIMEOUT_MS
    /\ watch' = [watch EXCEPT !.pc = "polling"]
    /\ UNCHANGED <<hookVars, repoVars, detectVars, cacheVars, editVars,
                   raceVars, loopVars>>

\* the exec settles: argocd printed a list, or failed, or printed what
\* JSON.parse or the map rejects
PollAnswers ==
    /\ watch.pc = "polling"
    /\ \E result \in PollResults : watch' = Handle(watch, result, 0)
    /\ UNCHANGED <<hookVars, repoVars, detectVars, cacheVars, editVars,
                   raceVars, loopVars>>

\* the exec is cut off after ExecTimeoutMs and rejects
PollTimesOut ==
    /\ watch.pc = "polling"
    /\ watch' = Handle(watch, PollResult(TRUE, <<>>), ExecTimeoutMs)
    /\ UNCHANGED <<hookVars, repoVars, detectVars, cacheVars, editVars,
                   raceVars, loopVars>>

\* await sleep(POLL_INTERVAL_MS)
WatchSleep ==
    /\ watch.pc = "sleeping"
    /\ watch' = [watch EXCEPT !.pc = "loop", !.clock = @ + POLL_INTERVAL_MS,
                              !.sincePoll = @ + POLL_INTERVAL_MS]
    /\ UNCHANGED <<hookVars, repoVars, detectVars, cacheVars, editVars,
                   raceVars, loopVars>>

\* the loop condition fails: the timeout report and the pending apps
WatchTimeout ==
    /\ watch.pc = "loop"
    /\ watch.clock - watch.startTime >= SYNC_TIMEOUT_MS
    /\ watch' = WatchExit(WatchReport(watch, "TIMEOUT",
                                      pendingApps(watch.lastStatus)))
    /\ UNCHANGED <<hookVars, repoVars, detectVars, cacheVars, editVars,
                   raceVars, loopVars>>

\* the process is gone
WatchDone ==
    /\ watch.pc = "exited"
    /\ watch' = NotWatching
    /\ UNCHANGED <<hookVars, repoVars, detectVars, cacheVars, editVars,
                   raceVars, loopVars>>

SyncNext ==
    \/ WatchStart
    \/ WatchPoll
    \/ PollAnswers
    \/ PollTimesOut
    \/ WatchSleep
    \/ WatchTimeout
    \/ WatchDone

SpecSync == Init /\ [][SyncNext]_vars

\* a started watcher process keeps running, and its awaits settle: the
\* timer of sleep fires, and an exec that has not answered is cut off
SpecSyncFair ==
    /\ SpecSync
    /\ WF_vars(WatchPoll) /\ WF_vars(PollTimesOut)
    /\ WF_vars(WatchSleep) /\ WF_vars(WatchTimeout)

(***************************************************************************)
(* C30 -- the sync watcher ends with one outcome.                          *)
(***************************************************************************)
Triggered == Triggers(watch.input, watch.dir)

Waiting == watch.pc \in {"loop", "polling", "sleeping"}

Exited == watch.pc = "exited"

Outcome1 == watch.reports[1].outcome

LastPoll == watch.polled[1]

\* a watcher that has exited did so with code 0; when triggered it reported
\* one outcome, the one its last poll or the clock calls for, every poll
\* before that one having shown apps still Syncing or OutOfSync and none
\* Failed or Degraded; polls start POLL_INTERVAL_MS after the one before
\* ended, and only while less than SYNC_TIMEOUT_MS have elapsed
C30_OneOutcome ==
    /\ watch.exitCode # <<>> => watch.exitCode = <<ExitSuccess>>
    /\ (Exited /\ ~Triggered) => watch.reports = <<>> /\ watch.polls = 0
    /\ Waiting => /\ watch.reports = <<>>
                  /\ watch.polls = watch.pending
                  /\ watch.polls > 0 => PollOutcome(LastPoll) = "pending"
    /\ (watch.pc = "loop" /\ watch.polls > 0) => watch.sincePoll = POLL_INTERVAL_MS
    /\ (Exited /\ Triggered)
          => /\ Len(watch.reports) = 1
             /\ Outcome1 \in {"FAILED", "Complete", "error", "TIMEOUT"}
             /\ Outcome1 = "TIMEOUT"
                   <=> /\ watch.polls = watch.pending
                       /\ watch.clock - watch.startTime >= SYNC_TIMEOUT_MS
             /\ Outcome1 # "TIMEOUT"
                   => /\ watch.polls = watch.pending + 1
                      /\ watch.clock - watch.startTime
                            < SYNC_TIMEOUT_MS + ExecTimeoutMs
                      /\ Outcome1 = "error" <=> LastPoll.error
                      /\ Outcome1 = "FAILED"
                            <=> ~LastPoll.error /\ failed(LastPoll.status) # <<>>
                      /\ Outcome1 = "Complete"
                            <=> /\ ~LastPoll.error
                                /\ failed(LastPoll.status) = <<>>
                                /\ syncing(LastPoll.status) = <<>>
                                /\ outOfSync(LastPoll.status) = <<>>

\* C30: once triggered by a git push inside a repo the watcher always
\* exits, with code 0 and exactly one outcome reported: FAILED at the first
\* poll showing an app Failed or Degraded, whatever else is Syncing or
\* OutOfSync; Complete at the first poll showing none of these; at once when
\* a poll throws; otherwise TIMEOUT when SYNC_TIMEOUT_MS have elapsed, the
\* polls POLL_INTERVAL_MS apart.
C30_WatcherTerminatesWithOneOutcome ==
    /\ []C30_OneOutcome
    /\ Waiting ~> Exited

\* a watcher that found one app Degraded while another was still Syncing,
\* at its second poll, and reported FAILED
C30_Witness ==
    /\ Exited /\ Triggered
    /\ watch.polls = 2 /\ watch.pending = 1
    /\ Outcome1 = "FAILED"
    /\ Len(LastPoll.status) = 2
    /\ LastPoll.status[1].healthStatus = "Degraded"
    /\ LastPoll.status[2].syncStatus = "Syncing"
    /\ LastPoll.status[2].healthStatus = "Healthy"

====
